---- MODULE Spec2Model ----
(***************************************************************************)
(* Configuration backup / auto-restore lifecycle of the ACS bridge:        *)
(*   app/services/config_backup_service.py  (ConfigBackupService)          *)
(*   app/routers/backup_router.py           (HTTP endpoints)               *)
(*   app/scripts/device_monitor.py          (monitor process)              *)
(*   app/database/models.py                 (DeviceConfigBackup, ...)      *)
(***************************************************************************)
EXTENDS Integers, Sequences, FiniteSets, TLC

(***************************************************************************)
(* Bounds of the model.                                                    *)
(***************************************************************************)
\* DeviceConfigBackup rows the handlers may insert.
MaxBackups == 2
\* DeviceBootstrapEvent rows in the runs on one device id.
MaxEvents == 2
\* DeviceBootstrapEvent rows in the runs on the whole fleet.
MaxFleetEvents == 1
\* DeviceBootstrapEvent rows in the runs of the monitor's cycles.
MaxMonitorEvents == 1
\* Extractions in a run of successive create_backup calls.
MaxCalls == 5
\* DeviceBootstrapEvent rows in the runs of the two processes.
MaxInFlight == 2

(***************************************************************************)
(* Python values found at the leaves of a GenieACS device document.  Every *)
(* value is a record [ty, v]: ty is the runtime type, v the str() of the   *)
(* value.  Missing is a dict key that is not there (dict.get gives None).  *)
(***************************************************************************)
None == [ty |-> "none", v |-> "None"]
Missing == [ty |-> "missing", v |-> ""]
Str(s) == [ty |-> "str", v |-> s]
Bool(b) == [ty |-> "bool", v |-> IF b THEN "True" ELSE "False"]
IntStr(s) == [ty |-> "int", v |-> s]

\* Python truthiness: None, "", 0 and False are falsy.
Truthy(x) ==
    ~ \/ x.ty \in {"none", "missing"}
      \/ x.ty = "str" /\ x.v = ""
      \/ x.ty = "int" /\ x.v = "0"
      \/ x.ty = "bool" /\ x.v = "False"

\* Python `a or b`.
PyOr(a, b) == IF Truthy(a) THEN a ELSE b

\* dict.get(key): None for a key that is not there.
DictGet(x) == IF x = Missing THEN None ELSE x

\* str(x).lower() on the values that reach it (booleans and lower-case text).
StrLower(x) ==
    Str(IF x.v = "True" THEN "true"
        ELSE IF x.v = "False" THEN "false"
        ELSE IF x.v = "None" THEN "none" ELSE x.v)

(***************************************************************************)
(* Device documents.  A document is a function from the dotted path of a   *)
(* leaf to the leaf's _value; a path outside the domain does not exist in  *)
(* the document.                                                           *)
(***************************************************************************)
SERIAL_PATH == "_deviceId._SerialNumber"
WLAN_PREFIX == "InternetGatewayDevice.LANDevice.1.WLANConfiguration."
PPP_PREFIX == "InternetGatewayDevice.WANDevice.1.WANConnectionDevice.1.WANPPPConnection.1"
IP_PREFIX == "InternetGatewayDevice.WANDevice.1.WANConnectionDevice.1.WANIPConnection.1"
LAN_PREFIX == "InternetGatewayDevice.LANDevice.1.LANHostConfigManagement"

\* _get_value(obj, path, default)
GetValue(t, path, default) == IF path \in DOMAIN t THEN t[path] ELSE default

\* One WLANConfiguration.{idx} block, as _extract_wifi_config reads it.
WifiBlock(t, prefix) ==
    [ ssid |-> GetValue(t, prefix \o ".SSID", None),
      password |-> PyOr(GetValue(t, prefix \o ".PreSharedKey.1.PreSharedKey", None),
                        GetValue(t, prefix \o ".KeyPassphrase", None)),
      enabled |-> GetValue(t, prefix \o ".Enable", Bool(TRUE)),
      channel |-> GetValue(t, prefix \o ".Channel", None),
      auto_channel |-> GetValue(t, prefix \o ".AutoChannelEnable", None),
      security_mode |-> PyOr(GetValue(t, prefix \o ".BeaconType", None),
                             GetValue(t, prefix \o ".X_TP_SecurityMode", None)),
      hidden |-> Bool(~ Truthy(GetValue(t, prefix \o ".SSIDAdvertisementEnabled", Bool(TRUE)))),
      bandwidth |-> GetValue(t, prefix \o ".X_TP_Bandwidth", None),
      txpower |-> GetValue(t, prefix \o ".X_TP_TransmitPower", None) ]

\* The empty dict {} of a band that was not found.
EmptyBlock ==
    [ ssid |-> Missing, password |-> Missing, enabled |-> Missing, channel |-> Missing,
      auto_channel |-> Missing, security_mode |-> Missing, hidden |-> Missing,
      bandwidth |-> Missing, txpower |-> Missing ]

\* The 5 GHz block: the first of WLANConfiguration.2, .5 whose SSID is truthy.
Wifi5Block(t) ==
    IF Truthy(GetValue(t, WLAN_PREFIX \o "2.SSID", None)) THEN WifiBlock(t, WLAN_PREFIX \o "2")
    ELSE IF Truthy(GetValue(t, WLAN_PREFIX \o "5.SSID", None)) THEN WifiBlock(t, WLAN_PREFIX \o "5")
    ELSE EmptyBlock

\* _extract_wifi_config: g24 is the "2.4GHz" entry, g5 the "5GHz" entry.
ExtractWifiConfig(t) ==
    LET b24 == WifiBlock(t, WLAN_PREFIX \o "1")
        b5 == Wifi5Block(t)
    IN  IF ~ Truthy(DictGet(b24.ssid))
        THEN [ g24 |-> [b24 EXCEPT
                          !.ssid = GetValue(t, "Device.WiFi.SSID.1.SSID", None),
                          !.password = GetValue(t, "Device.WiFi.AccessPoint.1.Security.KeyPassphrase", None)],
               g5 |-> [b5 EXCEPT
                          !.ssid = GetValue(t, "Device.WiFi.SSID.2.SSID", None),
                          !.password = GetValue(t, "Device.WiFi.AccessPoint.2.Security.KeyPassphrase", None)] ]
        ELSE [ g24 |-> b24, g5 |-> b5 ]

\* _extract_wan_config
ExtractWanConfig(t) ==
    LET user == GetValue(t, PPP_PREFIX \o ".Username", None)
        pass == GetValue(t, PPP_PREFIX \o ".Password", None)
        fallback == ~ Truthy(user)
    IN  [ pppoe |->
            [ username |-> IF fallback THEN GetValue(t, "Device.PPP.Interface.1.Username", None) ELSE user,
              password |-> IF fallback THEN GetValue(t, "Device.PPP.Interface.1.Password", None) ELSE pass,
              enabled |-> GetValue(t, PPP_PREFIX \o ".Enable", Bool(TRUE)),
              nat_enabled |-> GetValue(t, PPP_PREFIX \o ".NATEnabled", Bool(TRUE)),
              mtu |-> GetValue(t, PPP_PREFIX \o ".MaxMTUSize", None) ],
          static_ip |->
            [ address |-> GetValue(t, IP_PREFIX \o ".ExternalIPAddress", None),
              gateway |-> GetValue(t, IP_PREFIX \o ".DefaultGateway", None),
              dns |-> GetValue(t, IP_PREFIX \o ".DNSServers", None) ] ]

\* _extract_lan_config
ExtractLanConfig(t) ==
    [ ip |->
        [ address |-> PyOr(GetValue(t, LAN_PREFIX \o ".IPInterface.1.IPInterfaceIPAddress", None),
                           GetValue(t, LAN_PREFIX \o ".IPAddress", None)),
          subnet_mask |-> PyOr(GetValue(t, LAN_PREFIX \o ".IPInterface.1.IPInterfaceSubnetMask", None),
                               GetValue(t, LAN_PREFIX \o ".SubnetMask", None)) ],
      dhcp |->
        [ enabled |-> GetValue(t, LAN_PREFIX \o ".DHCPServerEnable", Bool(TRUE)),
          start |-> GetValue(t, LAN_PREFIX \o ".MinAddress", None),
          end |-> GetValue(t, LAN_PREFIX \o ".MaxAddress", None),
          lease_time |-> GetValue(t, LAN_PREFIX \o ".DHCPLeaseTime", None),
          dns_servers |-> GetValue(t, LAN_PREFIX \o ".DNSServers", None) ] ]

Param(path, value, type) == [path |-> path, value |-> value, type |-> type]

\* The write instructions of one Wi-Fi band in _build_tr069_params.
WifiParams(w, prefix) ==
    IF ~ Truthy(DictGet(w.ssid)) THEN << >>
    ELSE << Param(prefix \o ".SSID", w.ssid, "xsd:string") >>
         \o (IF Truthy(DictGet(w.password))
             THEN << Param(prefix \o ".PreSharedKey.1.PreSharedKey", w.password, "xsd:string"),
                     Param(prefix \o ".KeyPassphrase", w.password, "xsd:string") >>
             ELSE << >>)
         \o (IF Truthy(DictGet(w.channel))
             THEN << Param(prefix \o ".Channel", Str(w.channel.v), "xsd:unsignedInt") >>
             ELSE << >>)
         \o (IF DictGet(w.enabled) # None
             THEN << Param(prefix \o ".Enable", StrLower(w.enabled), "xsd:boolean") >>
             ELSE << >>)

\* _build_tr069_params
BuildTr069Params(wifi, wan, lan) ==
    WifiParams(wifi.g24, WLAN_PREFIX \o "1")
    \o WifiParams(wifi.g5, WLAN_PREFIX \o "2")
    \o (IF Truthy(wan.pppoe.username)
        THEN << Param(PPP_PREFIX \o ".Username", wan.pppoe.username, "xsd:string") >>
             \o (IF Truthy(wan.pppoe.password)
                 THEN << Param(PPP_PREFIX \o ".Password", wan.pppoe.password, "xsd:string") >>
                 ELSE << >>)
        ELSE << >>)
    \o (IF Truthy(lan.ip.address)
        THEN << Param(LAN_PREFIX \o ".IPInterface.1.IPInterfaceIPAddress", lan.ip.address, "xsd:string") >>
             \o (IF Truthy(lan.ip.subnet_mask)
                 THEN << Param(LAN_PREFIX \o ".IPInterface.1.IPInterfaceSubnetMask", lan.ip.subnet_mask, "xsd:string") >>
                 ELSE << >>)
        ELSE << >>)

\* json.dumps(d, sort_keys=True) of a flat dict: the (key, value) pairs in key
\* order, the keys that are not there left out.
DumpDict(d, keys) ==
    LET pair(i) == << keys[i], d[keys[i]] >>
    IN  SelectSeq([i \in 1..Len(keys) |-> pair(i)], LAMBDA p : p[2] # Missing)

BlockKeys ==
    << "auto_channel", "bandwidth", "channel", "enabled", "hidden",
       "password", "security_mode", "ssid", "txpower" >>

\* _compute_config_hash({"wifi":..., "wan":..., "lan":...}): the sha256 of the
\* key-sorted JSON text is represented by that text ("lan" < "wan" < "wifi").
ComputeConfigHash(wifi, wan, lan) ==
    << DumpDict(lan.dhcp, << "dns_servers", "enabled", "end", "lease_time", "start" >>),
       DumpDict(lan.ip, << "address", "subnet_mask" >>),
       DumpDict(wan.pppoe, << "enabled", "mtu", "nat_enabled", "password", "username" >>),
       DumpDict(wan.static_ip, << "address", "dns", "gateway" >>),
       DumpDict(wifi.g24, BlockKeys),
       DumpDict(wifi.g5, BlockKeys) >>

(***************************************************************************)
(* The fleet.  DeviceIds are GenieACS device ids (_id); both report the    *)
(* same serial number (the id embeds OUI and product class, which a        *)
(* firmware change can alter).  DocNames name the documents GenieACS can   *)
(* return for a device.                                                    *)
(***************************************************************************)
DeviceIds == {"d1", "d2"}
SerialOf(d) == "SN1"
Serials == {SerialOf(d) : d \in DeviceIds}

DocNames == {"A", "B", "bare"}

\* Documents that carry a single setting: a 5 GHz SSID in either data model, or
\* a TR-181 PPPoE username.
SingleSettingDocNames == {"only5", "only5dev", "pppdev"}

\* The document of a device after a factory reset: the vendor's SSID and no
\* PPPoE username.
FactoryDocNames == {"factory"}
AllDocNames == DocNames \cup SingleSettingDocNames \cup FactoryDocNames

\* The document named k, as device d reports it.
Doc(k, d) ==
    (SERIAL_PATH :> Str(SerialOf(d)))
    @@ (IF k = "A"
        THEN (WLAN_PREFIX \o "1.SSID" :> Str("casa"))
             @@ (WLAN_PREFIX \o "1.KeyPassphrase" :> Str("segredo"))
             @@ (WLAN_PREFIX \o "1.Channel" :> IntStr("6"))
             @@ (PPP_PREFIX \o ".Username" :> Str("user@isp"))
        ELSE IF k = "B"
        THEN (WLAN_PREFIX \o "1.SSID" :> Str("casa"))
             @@ (WLAN_PREFIX \o "1.KeyPassphrase" :> Str("outra"))
             @@ (WLAN_PREFIX \o "5.SSID" :> Str("casa-5g"))
        ELSE IF k = "only5"
        THEN (WLAN_PREFIX \o "5.SSID" :> Str("casa-5g"))
        ELSE IF k = "only5dev"
        THEN ("Device.WiFi.SSID.2.SSID" :> Str("casa-5g"))
        ELSE IF k = "pppdev"
        THEN ("Device.PPP.Interface.1.Username" :> Str("user@isp"))
        ELSE IF k = "factory"
        THEN (WLAN_PREFIX \o "1.SSID" :> Str("TP-Link_5G"))
        ELSE (WLAN_PREFIX \o "1.Enable" :> Bool(TRUE)))

\* What the POST to GenieACS can come to: an HTTP status, or an exception.
Response(kind, code) == [kind |-> kind, code |-> code]
Responses ==
    { Response("status", c) : c \in {200, 202, 204, 400} }
    \cup { Response("timeout", 0), Response("refused", 0) }

\* GenieACS's document named k for device d, and what create_backup extracts
\* from it (tables, so that each is computed once).
DocTable == [k \in AllDocNames, d \in DeviceIds |-> Doc(k, d)]

ExtractTable ==
    [k \in AllDocNames, d \in DeviceIds |->
        [ wifi |-> ExtractWifiConfig(DocTable[k, d]),
          wan |-> ExtractWanConfig(DocTable[k, d]),
          lan |-> ExtractLanConfig(DocTable[k, d]) ]]

\* The wifi_config, wan_config and lan_config columns of a DeviceConfigBackup
\* row.  Nothing rewrites them after the insert, so a row carries the name of
\* the document they were extracted from (source) and these read them back.
WifiOf(b) == ExtractTable[b.source].wifi
WanOf(b) == ExtractTable[b.source].wan
LanOf(b) == ExtractTable[b.source].lan

\* _build_tr069_params of what is extracted from document k of device d.
ParamsTable ==
    [k \in AllDocNames, d \in DeviceIds |->
        BuildTr069Params(ExtractTable[k, d].wifi, ExtractTable[k, d].wan, ExtractTable[k, d].lan)]

\* The two processes that own a database session each: the monitor script
\* (device_monitor.py) and the API server (backup_router.py).
Procs == {"monitor", "api"}

VARIABLES
    devices,      \* the Device rows, identified by their unique device_id
    backups,      \* the DeviceConfigBackup rows, in id order
    events,       \* the DeviceBootstrapEvent rows, in id order
    posts,        \* the setParameterValues tasks POSTed to GenieACS
    taskHistory,  \* the number of TaskHistory rows written by _send_restore_task
    now,          \* logical clock behind datetime.utcnow()
    procs,        \* where each process is inside create_backup / auto_restore_config
    last,         \* history: the last handler call and what it returned
    cbHist,       \* history: the hashes extracted by successive create_backup calls
    known,        \* the monitor's _known_devices
    prevUptime,   \* the monitor's _previous_uptimes
    obs,          \* history: the last process_device call and its verdict
    hadPppoe,     \* history: the device ids seen with a PPPoE username so far
    probe         \* the last call of a pure function: its input and its result

\* The monitor's caches and the history of what it observed.
monVars == << known, prevUptime, obs, hadPppoe >>

vars ==
    << devices, backups, events, posts, taskHistory, now, procs, last, cbHist,
       monVars, probe >>

\* A missing number (None) and an integer, as the monitor's get_value returns them.
NoInt == [ty |-> "none", n |-> 0]
IntVal(n) == [ty |-> "int", n |-> n]

\* A missing text (None) and a text, the text being its sequence of characters.
NoText == [ty |-> "none", s |-> << >>]
Text(s) == [ty |-> "str", s |-> s]

\* The observation of a device: the fields of its document process_device reads.
NoObservation == [igd_uptime |-> NoInt, dev_uptime |-> NoInt, ssid |-> NoText, pppoe |-> NoText]

NoVerdict ==
    [ dev |-> "", reported |-> NoInt, uptime |-> NoInt, prev |-> NoInt, is_new |-> FALSE,
      reset |-> FALSE, reason |-> "", action |-> "none", tick |-> FALSE ]

NoProbe == [fn |-> "none"]

NoCall ==
    [ op |-> "none", dev |-> "", doc |-> "", ret |-> 0, ok |-> FALSE,
      resp |-> Response("none", 0), rep |-> FALSE ]

IdleProc ==
    [ pc |-> "idle", dev |-> "", doc |-> "", existing |-> 0,
      backup |-> 0, event |-> 0, count |-> 0 ]

Init ==
    /\ devices = {}
    /\ backups = << >>
    /\ events = << >>
    /\ posts = << >>
    /\ taskHistory = 0
    /\ now = 0
    /\ procs = [p \in Procs |-> IdleProc]
    /\ last = NoCall
    /\ cbHist = << >>
    /\ known = {}
    /\ prevUptime = [d \in DeviceIds |-> NoInt]
    /\ obs = NoVerdict
    /\ hadPppoe = {}
    /\ probe = NoProbe

(***************************************************************************)
(* Queries.  Query.first() has no ORDER BY: with several matching rows it  *)
(* may return any of them, so each query is the set of rows it may return. *)
(***************************************************************************)
\* create_backup's `existing`, get_backup_by_device, delete_device_backup
ActiveByDevice(bs, d) == {i \in DOMAIN bs : bs[i].device = d /\ bs[i].is_active}

\* The lookup without its is_auto_restore_enabled filter.
GetActiveBackupAnyFlag(bs, s) ==
    {i \in DOMAIN bs : bs[i].serial_number = s /\ bs[i].is_active}

\* get_active_backup(serial_number)
GetActiveBackup(bs, s) ==
    {i \in DOMAIN bs : /\ bs[i].serial_number = s
                       /\ bs[i].is_active
                       /\ bs[i].is_auto_restore_enabled}

(***************************************************************************)
(* create_backup                                                           *)
(***************************************************************************)
\* The DeviceConfigBackup row create_backup inserts (column defaults applied).
NewBackup(d, serial, k) ==
    [ device |-> d, serial_number |-> serial,
      source |-> << k, d >>,
      tr069_params |-> ParamsTable[k, d],
      is_active |-> TRUE, is_auto_restore_enabled |-> TRUE,
      restore_count |-> 0, last_restored_at |-> 0 ]

\* A comparison that never finds the hashes equal.
ConfigAlwaysChanged(b, wifi, wan, lan) == FALSE

\* existing_hash == config_hash
ConfigUnchanged(b, wifi, wan, lan) ==
    ComputeConfigHash(WifiOf(b), WanOf(b), LanOf(b)) = ComputeConfigHash(wifi, wan, lan)

\* The old row left active.
DeactivateNothing(bs, i) == bs

\* The old row removed from the table.
DeactivateByDelete(bs, i) == SubSeq(bs, 1, i - 1) \o SubSeq(bs, i + 1, Len(bs))

\* existing.is_active = False
Deactivate(bs, i) == [bs EXCEPT ![i].is_active = FALSE]

\* serial = _get_value(device_data, "_deviceId._SerialNumber") or device.serial_number
BackupSerial(t, d) == PyOr(GetValue(t, SERIAL_PATH, None), Str(SerialOf(d)))

\* has_wifi or has_wan
HasConfig(wifi, wan) ==
    \/ Truthy(DictGet(wifi.g24.ssid))
    \/ Truthy(wan.pppoe.username)

\* Whether create_backup(d, document k of d) gets as far as a content hash.
Extracts(d, k) ==
    /\ d \in devices
    /\ Truthy(BackupSerial(DocTable[k, d], d))
    /\ HasConfig(ExtractTable[k, d].wifi, ExtractTable[k, d].wan)

\* The reading half of create_backup on the store bs: what it decides to do.
\* "none": return None; "same": return the existing row; "insert": deactivate
\* the existing row, if any, and insert a new one.
BackupPlans(bs, d, k) ==
    LET x == ExtractTable[k, d]
    IN  IF ~ Extracts(d, k) THEN {[kind |-> "none", existing |-> 0]}
        ELSE IF ActiveByDevice(bs, d) = {} THEN {[kind |-> "insert", existing |-> 0]}
        ELSE { [ kind |-> IF ConfigUnchanged(bs[e], x.wifi, x.wan, x.lan)
                          THEN "same" ELSE "insert",
                 existing |-> e ] : e \in ActiveByDevice(bs, d) }

\* The writing half of create_backup: the store after the commit.
ApplyPlan(bs, d, k, plan) ==
    IF plan.kind # "insert" THEN bs
    ELSE Append(IF plan.existing # 0 THEN Deactivate(bs, plan.existing) ELSE bs,
                NewBackup(d, BackupSerial(DocTable[k, d], d).v, k))

\* The id of the row create_backup returns, 0 for None.
PlanResult(bs, plan) ==
    IF plan.kind = "none" THEN 0
    ELSE IF plan.kind = "same" THEN plan.existing
    ELSE Len(bs) + 1

\* create_backup(device_id = d, device_data = document k of d), start to end.
CreateBackup(d, k, ret) ==
    \E plan \in BackupPlans(backups, d, k) :
        /\ backups' = ApplyPlan(backups, d, k, plan)
        /\ ret = PlanResult(backups, plan)

Called(op, d, k, ret, ok, resp) ==
    [ op |-> op, dev |-> d, doc |-> k, ret |-> ret, ok |-> ok, resp |-> resp,
      rep |-> last.op = op /\ last.dev = d /\ last.doc = k ]

\* metrics_service.upsert_device: the only place a Device row is inserted.
UpsertDevice(d) ==
    /\ d \notin devices
    /\ devices' = devices \cup {d}
    /\ last' = Called("upsert_device", d, "", 0, TRUE, NoCall.resp)
    /\ UNCHANGED << backups, events, posts, taskHistory, now, procs, cbHist, monVars, probe >>

\* POST /backup/create, run_backup_cycle and process_device's first backup.
CreateBackupCall(d, k) ==
    \E ret \in 0..MaxBackups :
        /\ CreateBackup(d, k, ret)
        /\ Len(backups') <= MaxBackups
        /\ last' = Called("create_backup", d, k, ret, ret # 0, NoCall.resp)
        /\ UNCHANGED << devices, events, posts, taskHistory, now, procs, cbHist, monVars, probe >>

\* Successive create_backup calls for one device, with the content hash of
\* each extraction recorded.
BackupExtraction(d, k) ==
    \E ret \in 0..MaxCalls :
        /\ Len(cbHist) < MaxCalls
        /\ CreateBackup(d, k, ret)
        /\ last' = Called("create_backup", d, k, ret, ret # 0, NoCall.resp)
        /\ cbHist' = IF Extracts(d, k)
                     THEN Append(cbHist, ComputeConfigHash(ExtractTable[k, d].wifi,
                                     ExtractTable[k, d].wan, ExtractTable[k, d].lan))
                     ELSE cbHist
        /\ UNCHANGED << devices, events, posts, taskHistory, now, procs, monVars, probe >>

(***************************************************************************)
(* auto_restore_config and _send_restore_task                              *)
(***************************************************************************)
\* resp.status_code in (200, 202)
Accepted(resp) == resp.kind = "status" /\ resp.code \in {200, 202}

\* A sender that tries three times when the POST raises.
SendAttemptsRetry(params, resp) ==
    IF params = << >> THEN 0
    ELSE IF resp.kind \in {"timeout", "refused"} THEN 3 ELSE 1

\* How many times _send_restore_task POSTs the task: never for an empty
\* parameter list, else exactly once, whatever the answer.
SendAttempts(params, resp) == IF params = << >> THEN 0 ELSE 1

\* A sender that takes a timeout for an accepted task.
SendRestoreTaskOptimistic(params, resp) ==
    params # << >> /\ (Accepted(resp) \/ resp.kind = "timeout")

\* _send_restore_task's return value.
SendRestoreTask(params, resp) == params # << >> /\ Accepted(resp)

\* The DeviceBootstrapEvent row auto_restore_config inserts.
NewEvent(b, d, s) ==
    [ device |-> b.device, serial_number |-> s, genie_device_id |-> d,
      event_type |-> "auto_restore_triggered", action_taken |-> "auto_restore",
      restore_status |-> "pending" ]

\* An outcome branch that records accepted restores only.
OutcomeStatusOnSuccess(success) == IF success THEN "success" ELSE "pending"

\* event.restore_status after the submission.
OutcomeStatus(success) == IF success THEN "success" ELSE "failed"

\* An outcome branch that stamps the time and forgets the counter.
RecordOutcomeNoCount(bs, i, success, time, count) ==
    IF success THEN [bs EXCEPT ![i].last_restored_at = time] ELSE bs

\* An outcome branch that counts failed restores too.
RecordOutcomeAlways(bs, i, success, time, count) ==
    [bs EXCEPT ![i].restore_count = count + 1, ![i].last_restored_at = time]

\* The outcome branch of auto_restore_config on snapshot i: restore_count
\* becomes count + 1, count being the value the session holds for the row.
RecordOutcome(bs, i, success, time, count) ==
    IF success
    THEN [bs EXCEPT ![i].restore_count = count + 1, ![i].last_restored_at = time]
    ELSE bs

\* The POSTs one _send_restore_task call makes for event ev.
Submissions(d, ev, i, params, resp) ==
    [n \in 1..SendAttempts(params, resp) |-> [device |-> d, event |-> ev, backup |-> i]]

\* auto_restore_config(device_id = d, serial_number = s), start to end, when
\* the POST comes to resp; ok is the boolean it returns, ev the id of the event
\* it inserts (0 for none).
AutoRestoreConfig(d, s, resp, ok, ev) ==
    IF GetActiveBackup(backups, s) = {}
    THEN /\ ok = FALSE
         /\ ev = 0
         /\ UNCHANGED << backups, events, posts, taskHistory, now >>
    ELSE \E i \in GetActiveBackup(backups, s) :
            LET params == backups[i].tr069_params
                success == SendRestoreTask(params, resp)
            IN  /\ Len(events) < MaxEvents
                /\ ok = success
                /\ ev = Len(events) + 1
                /\ now' = now + 1
                /\ events' = Append(events,
                       [NewEvent(backups[i], d, s) EXCEPT !.restore_status = OutcomeStatus(success)])
                /\ posts' = posts \o Submissions(d, ev, i, params, resp)
                /\ taskHistory' = IF success /\ d \in devices
                                  THEN taskHistory + 1 ELSE taskHistory
                /\ backups' = RecordOutcome(backups, i, success, now', backups[i].restore_count)

\* process_device: the monitor's call auto_restore_config(device_id, serial),
\* made for a new device id whose serial has a backup or on a detected reset.
MonitorRestore(d, resp) ==
    \E ok \in BOOLEAN, ev \in 0..MaxEvents :
        /\ AutoRestoreConfig(d, SerialOf(d), resp, ok, ev)
        /\ last' = Called("auto_restore", d, "", ev, ok, resp)
        /\ UNCHANGED << devices, procs, cbHist, monVars, probe >>

\* POST /backup/restore with body (device_id = d, force).
RestoreEndpoint(d, force, resp) ==
    LET byDevice == ActiveByDevice(backups, d)
        found == IF byDevice # {} THEN byDevice ELSE GetActiveBackup(backups, SerialOf(d))
    IN  /\ d \in devices
        /\ \E b \in found :
              /\ backups[b].is_auto_restore_enabled \/ force
              /\ \E ok \in BOOLEAN, ev \in 0..MaxEvents :
                    /\ AutoRestoreConfig(d, backups[b].serial_number, resp, ok, ev)
                    /\ last' = Called("restore_config", d, "", ev, ok, resp)
        /\ UNCHANGED << devices, procs, cbHist, monVars, probe >>

\* toggle_auto_restore(serial_number = s, enabled = en)
ToggleAutoRestore(s, en) ==
    /\ IF GetActiveBackup(backups, s) = {}
       THEN /\ backups' = backups
            /\ last' = Called("toggle_auto_restore", "", s, 0, FALSE, NoCall.resp)
       ELSE \E i \in GetActiveBackup(backups, s) :
               /\ backups' = [backups EXCEPT ![i].is_auto_restore_enabled = en]
               /\ last' = Called("toggle_auto_restore", "", s, i, TRUE, NoCall.resp)
    /\ UNCHANGED << devices, events, posts, taskHistory, now, procs, cbHist, monVars, probe >>

\* DELETE /backup/device/{device_id}
DeleteDeviceBackup(d) ==
    /\ d \in devices
    /\ \E i \in ActiveByDevice(backups, d) :
          /\ backups' = Deactivate(backups, i)
          /\ last' = Called("delete_device_backup", d, "", i, TRUE, NoCall.resp)
    /\ UNCHANGED << devices, events, posts, taskHistory, now, procs, cbHist, monVars, probe >>

(***************************************************************************)
(* The same two handlers step by step, for two processes with a database   *)
(* session each.  create_backup reads (`existing`, the hashes) and later   *)
(* commits; auto_restore_config commits the pending event and POSTs, and   *)
(* records the outcome when the answer arrives.  The code takes no lock    *)
(* and no row lock (no with_for_update) between the two halves.            *)
(***************************************************************************)
\* create_backup up to the decision taken from what it read.
CbRead(p, d, k) ==
    /\ procs[p].pc = "idle"
    /\ Len(backups) + Cardinality({q \in Procs : procs[q].pc = "cb_write"}) < MaxBackups
    /\ \E plan \in BackupPlans(backups, d, k) :
          IF plan.kind = "insert"
          THEN /\ procs' = [procs EXCEPT ![p] =
                              [IdleProc EXCEPT !.pc = "cb_write", !.dev = d, !.doc = k,
                                               !.existing = plan.existing]]
               /\ last' = last
          ELSE /\ procs' = procs
               /\ last' = Called("create_backup", d, k, PlanResult(backups, plan),
                                 plan.kind = "same", NoCall.resp)
    /\ UNCHANGED << devices, backups, events, posts, taskHistory, now, cbHist, monVars, probe >>

\* existing.is_active = False; db.add(backup); db.commit()
CbWrite(p) ==
    /\ procs[p].pc = "cb_write"
    /\ backups' = ApplyPlan(backups, procs[p].dev, procs[p].doc,
                            [kind |-> "insert", existing |-> procs[p].existing])
    /\ procs' = [procs EXCEPT ![p] = IdleProc]
    /\ last' = Called("create_backup", procs[p].dev, procs[p].doc, Len(backups'), TRUE, NoCall.resp)
    /\ UNCHANGED << devices, events, posts, taskHistory, now, cbHist, monVars, probe >>

\* auto_restore_config up to `await client.post(...)`: the pending event is
\* committed and the task is on its way.
ArBegin(p, d) ==
    /\ procs[p].pc = "idle"
    /\ IF GetActiveBackup(backups, SerialOf(d)) = {}
       THEN /\ last' = Called("auto_restore", d, "", 0, FALSE, NoCall.resp)
            /\ UNCHANGED << events, posts, procs >>
       ELSE \E i \in GetActiveBackup(backups, SerialOf(d)) :
               /\ Len(events) < MaxInFlight
               /\ events' = Append(events, NewEvent(backups[i], d, SerialOf(d)))
               /\ posts' = posts \o Submissions(d, Len(events'), i,
                                                backups[i].tr069_params, NoCall.resp)
               /\ procs' = [procs EXCEPT ![p] =
                              [IdleProc EXCEPT !.pc = "ar_wait", !.dev = d, !.backup = i,
                                               !.event = Len(events'),
                                               !.count = backups[i].restore_count]]
               /\ last' = last
    /\ UNCHANGED << devices, backups, taskHistory, now, cbHist, monVars, probe >>

\* The answer resp arrives: the rest of _send_restore_task and the outcome
\* branch of auto_restore_config.  The commit of the TaskHistory row expires
\* the session's copy of the snapshot, which is then read again.
ArFinish(p, resp) ==
    LET d == procs[p].dev
        i == procs[p].backup
        success == SendRestoreTask(backups[i].tr069_params, resp)
        count == IF d \in devices THEN backups[i].restore_count ELSE procs[p].count
    IN  /\ procs[p].pc = "ar_wait"
        /\ now' = now + 1
        /\ events' = [events EXCEPT ![procs[p].event].restore_status = OutcomeStatus(success)]
        /\ taskHistory' = IF success /\ d \in devices THEN taskHistory + 1 ELSE taskHistory
        /\ backups' = RecordOutcome(backups, i, success, now', count)
        /\ procs' = [procs EXCEPT ![p] = IdleProc]
        /\ last' = Called("auto_restore", d, "", procs[p].event, success, resp)
        /\ UNCHANGED << devices, posts, cbHist, monVars, probe >>

(***************************************************************************)
(* The monitor process (device_monitor.py): reset detection and what       *)
(* process_device does with each device of a cycle.                        *)
(***************************************************************************)
\* Python truthiness of what the monitor's get_value returns.
IntTruthy(x) == x.ty = "int" /\ x.n # 0
TextTruthy(x) == x.ty = "str" /\ x.s # << >>

\* str.lower()
UpperCase == << "A", "B", "C", "D", "E", "F", "G", "H", "I", "J", "K", "L", "M", "N", "O", "P", "Q", "R", "S", "T", "U", "V", "W", "X", "Y", "Z" >>
LowerCase == << "a", "b", "c", "d", "e", "f", "g", "h", "i", "j", "k", "l", "m", "n", "o", "p", "q", "r", "s", "t", "u", "v", "w", "x", "y", "z" >>
LowerChar(c) ==
    IF \E i \in DOMAIN UpperCase : UpperCase[i] = c
    THEN LowerCase[CHOOSE i \in DOMAIN UpperCase : UpperCase[i] = c]
    ELSE c
Lower(s) == [i \in 1..Len(s) |-> LowerChar(s[i])]

\* Python `sub in s` on strings.
Contains(sub, s) == \E i \in 0..(Len(s) - Len(sub)) : SubSeq(s, i + 1, i + Len(sub)) = sub

\* default_patterns of the monitor's is_default_ssid
DEFAULT_PATTERNS ==
    << << "t", "p", "-", "l", "i", "n", "k" >>,
       << "t", "p", "l", "i", "n", "k" >>,
       << "a", "r", "c", "h", "e", "r" >>,
       << "d", "e", "c", "o" >>,
       << "i", "n", "t", "e", "l", "b", "r", "a", "s" >>,
       << "t", "w", "i", "b", "i" >>,
       << "w", "i", "-", "f", "o", "r", "c", "e" >>,
       << "a", "c", "t", "i", "o", "n" >>,
       << "z", "t", "e" >>,
       << "z", "x", "h", "n" >>,
       << "f", "6", "7", "0" >>,
       << "f", "6", "8", "0" >>,
       << "h", "u", "a", "w", "e", "i" >>,
       << "h", "g", "8" >>,
       << "e", "g", "8" >>,
       << "o", "n", "t" >>,
       << "f", "i", "b", "e", "r", "h", "o", "m", "e" >>,
       << "a", "n", "5", "5" >>,
       << "h", "g", "6" >>,
       << "m", "u", "l", "t", "i", "l", "a", "s", "e", "r" >>,
       << "d", "e", "f", "a", "u", "l", "t" >>,
       << "s", "e", "t", "u", "p" >>,
       << "w", "i", "r", "e", "l", "e", "s", "s" >> >>

\* is_default_ssid(ssid, serial)
IsDefaultSsid(ssid, serial) ==
    IF ~ TextTruthy(ssid) THEN FALSE
    ELSE \/ \E i \in DOMAIN DEFAULT_PATTERNS : Contains(DEFAULT_PATTERNS[i], Lower(ssid.s))
         \/ TextTruthy(serial) /\ Contains(Lower(serial.s), Lower(ssid.s))

RESET_UPTIME_THRESHOLD == 600

\* _deviceId._SerialNumber of device d, as text.
SerialText(d) == Text(<< "S", "N", "1" >>)

\* What a cycle can read from a device's document.
Uptimes == {NoInt, IntVal(0), IntVal(120), IntVal(700), IntVal(86400)}
CycleSsids ==
    { NoText, Text(<< "c", "a", "s", "a" >>),
      Text(<< "T", "P", "-", "L", "i", "n", "k", "_", "5", "G" >>) }
Ssids == CycleSsids \cup { Text(<< "w", "i", "f", "i", "-", "s", "n", "1" >>) }
Observations ==
    [ igd_uptime : Uptimes, dev_uptime : {NoInt, IntVal(300)}, ssid : Ssids,
      pppoe : {NoText, Text(<< "u", "s", "e", "r", "@", "i", "s", "p" >>)} ]

\* is_default_ssid(ssid, serial of d) for the SSIDs a cycle can read (a table,
\* so that each is computed once).
DefaultSsidTable == [x \in Ssids, d \in DeviceIds |-> IsDefaultSsid(x, SerialText(d))]

\* The observations the modelled cycles draw from: TR-098 documents.
CycleObservations ==
    {o \in Observations : o.dev_uptime = NoInt /\ o.ssid \in CycleSsids}

\* uptime = get_value(..."InternetGatewayDevice.DeviceInfo.UpTime") or
\*          get_value(..."Device.DeviceInfo.UpTime")
MonitorUptime(o) == IF IntTruthy(o.igd_uptime) THEN o.igd_uptime ELSE o.dev_uptime

\* The uptime the document carries, whichever data model it is in.
ReportedUptime(o) == IF o.igd_uptime.ty = "int" THEN o.igd_uptime ELSE o.dev_uptime

\* A detector that takes the uptime rule for any two different uptimes.
DetectResetAnyChange(d, o, prev, kn) ==
    LET uptime == MonitorUptime(o)
    IN  IF uptime.ty = "int" /\ prev.ty = "int" /\ uptime.n # prev.n
        THEN [reset |-> TRUE, reason |-> "uptime_decreased"]
        ELSE [reset |-> FALSE, reason |-> "no_reset"]

\* detect_reset(device, previous_uptime), kn being _known_devices
DetectReset(d, o, prev, kn) ==
    LET uptime == MonitorUptime(o)
    IN  IF uptime.ty = "none" THEN [reset |-> FALSE, reason |-> "no_uptime"]
        ELSE IF prev.ty # "none" /\ uptime.n < prev.n
        THEN [reset |-> TRUE, reason |-> "uptime_decreased"]
        ELSE IF uptime.n < RESET_UPTIME_THRESHOLD /\ d \in kn
        THEN IF TextTruthy(o.ssid) /\ DefaultSsidTable[o.ssid, d]
             THEN [reset |-> TRUE, reason |-> "factory_reset_ssid"]
             ELSE IF ~ TextTruthy(o.pppoe)
             THEN [reset |-> TRUE, reason |-> "pppoe_lost"]
             ELSE [reset |-> FALSE, reason |-> "no_reset"]
        ELSE [reset |-> FALSE, reason |-> "no_reset"]

\* detect_reset called on observation o of device d with previous uptime prev,
\* kn being _known_devices; had tells whether an earlier observation of the
\* device carried a PPPoE username.
ProbeDetectReset(d, o, prev, kn, had) ==
    /\ probe' = [ fn |-> "detect_reset", dev |-> d, o |-> o, prev |-> prev, kn |-> kn,
                  had |-> had, out |-> DetectReset(d, o, prev, kn) ]
    /\ UNCHANGED << devices, backups, events, posts, taskHistory, now, procs, last,
                    cbHist, monVars >>

\* A monitor that takes every device id for one it has seen.
IsNewDeviceNever(d, kn) == FALSE

\* is_new = device_id not in _known_devices
IsNewDevice(d, kn) == d \notin kn

\* monitor_loop's start: the caches are empty module globals, _known_devices
\* is loaded from the Device table.
MonitorStart ==
    /\ known' = devices
    /\ prevUptime' = [d \in DeviceIds |-> NoInt]
    /\ UNCHANGED << devices, backups, events, posts, taskHistory, now, procs, last,
                    cbHist, obs, hadPppoe, probe >>

\* process_device for device d observed as o: a restore with whatever the
\* POST comes to, or a first backup of whatever document fetch_device_full
\* returns, or nothing.
ProcessDevice(d, o) ==
    LET is_new == IsNewDevice(d, known)
        uptime == MonitorUptime(o)
        det == DetectReset(d, o, prevUptime[d], known)
        existing_backup == GetActiveBackup(backups, SerialOf(d))
        action == IF is_new
                  THEN IF existing_backup # {} THEN "restore" ELSE "backup"
                  ELSE IF det.reset THEN "restore" ELSE "none"
    IN  /\ IF action = "restore"
           THEN \E resp \in Responses, ok \in BOOLEAN, ev \in 0..MaxEvents :
                   AutoRestoreConfig(d, SerialOf(d), resp, ok, ev)
           ELSE IF action = "backup"
           THEN /\ \E k \in DocNames, ret \in 0..MaxBackups : CreateBackup(d, k, ret)
                /\ Len(backups') <= MaxBackups
                /\ UNCHANGED << events, posts, taskHistory, now >>
           ELSE UNCHANGED << backups, events, posts, taskHistory, now >>
        /\ known' = IF is_new THEN known \cup {d} ELSE known
        /\ prevUptime' = IF IntTruthy(uptime)
                         THEN [prevUptime EXCEPT ![d] = uptime] ELSE prevUptime
        /\ obs' = [ dev |-> d, reported |-> ReportedUptime(o), uptime |-> uptime,
                    prev |-> prevUptime[d], is_new |-> is_new,
                    reset |-> det.reset, reason |-> det.reason, action |-> action,
                    tick |-> ~ obs.tick ]
        /\ hadPppoe' = IF TextTruthy(o.pppoe) THEN hadPppoe \cup {d} ELSE hadPppoe
        /\ UNCHANGED << devices, procs, last, cbHist, probe >>

\* What process_device reads from document k of a device whose uptime is up:
\* the SSID of WLANConfiguration.1 and the PPPoE username, as text.
DocObservation(k, up) ==
    [ igd_uptime |-> up, dev_uptime |-> NoInt,
      ssid |-> IF k = "factory"
               THEN Text(<< "T", "P", "-", "L", "i", "n", "k", "_", "5", "G" >>)
               ELSE Text(<< "c", "a", "s", "a" >>),
      pppoe |-> IF k = "factory" THEN NoText
                ELSE Text(<< "u", "s", "e", "r", "@", "i", "s", "p" >>) ]

\* The documents and uptimes of a device around a factory reset.
ResetDocNames == {"A", "factory"}
ResetUptimes == {IntVal(120), IntVal(300), IntVal(700)}

\* run_backup_cycle for device d, whose tree is fetched again and is document k.
RunBackupCycle(d, k) == CreateBackupCall(d, k)

(***************************************************************************)
(* app/services/tr069_normalizer.py (TR069Normalizer) and the smart        *)
(* setParameterValues endpoint of app/routers/tr069_router.py.  A device   *)
(* tree is a record: leaves maps the path of a leaf (the tuple of its      *)
(* keys) to the leaf's _value, manufacturer and product_class are the      *)
(* _deviceId._Manufacturer and _deviceId._ProductClass strings.            *)
(***************************************************************************)
\* The function with the single pair p |-> v, and the tree without leaves.
Leaf(p, v) == [x \in {p} |-> v]
NoLeaves == [x \in {} |-> None]
Tree(leaves, manufacturer, product_class) ==
    [leaves |-> leaves, manufacturer |-> manufacturer, product_class |-> product_class]

\* MANUFACTURER_MODEL_MAP, in the order of the dict.
MANUFACTURER_MODEL_MAP ==
    << << << "t", "p", "-", "l", "i", "n", "k" >>, "TR-098" >>,
       << << "t", "p", "l", "i", "n", "k" >>, "TR-098" >>,
       << << "t", "p", " ", "l", "i", "n", "k" >>, "TR-098" >>,
       << << "i", "n", "t", "e", "l", "b", "r", "a", "s" >>, "TR-098" >>,
       << << "m", "u", "l", "t", "i", "l", "a", "s", "e", "r" >>, "TR-098" >>,
       << << "d", "l", "i", "n", "k" >>, "TR-098" >>,
       << << "d", "-", "l", "i", "n", "k" >>, "TR-098" >>,
       << << "t", "e", "n", "d", "a" >>, "TR-098" >>,
       << << "m", "e", "r", "c", "u", "s", "y", "s" >>, "TR-098" >>,
       << << "z", "y", "x", "e", "l" >>, "TR-098" >>,
       << << "n", "e", "t", "g", "e", "a", "r" >>, "TR-098" >>,
       << << "l", "i", "n", "k", "s", "y", "s" >>, "TR-098" >>,
       << << "a", "s", "u", "s" >>, "TR-098" >>,
       << << "h", "u", "a", "w", "e", "i" >>, "TR-181" >>,
       << << "h", "u", "a", " ", "w", "e", "i" >>, "TR-181" >>,
       << << "f", "i", "b", "e", "r", "h", "o", "m", "e" >>, "TR-181" >>,
       << << "f", "i", "b", "e", "r", " ", "h", "o", "m", "e" >>, "TR-181" >>,
       << << "z", "t", "e" >>, "TR-181" >>,
       << << "n", "o", "k", "i", "a" >>, "TR-181" >>,
       << << "a", "l", "c", "a", "t", "e", "l" >>, "TR-181" >>,
       << << "a", "l", "c", "a", "t", "e", "l", "-", "l", "u", "c", "e", "n", "t" >>, "TR-181" >>,
       << << "c", "a", "l", "i", "x" >>, "TR-181" >>,
       << << "s", "a", "g", "e", "m", "c", "o", "m" >>, "TR-181" >>,
       << << "t", "e", "c", "h", "n", "i", "c", "o", "l", "o", "r" >>, "TR-181" >>,
       << << "z", "h", "o", "n", "e" >>, "TR-181" >>,
       << << "a", "d", "t", "r", "a", "n" >>, "TR-181" >> >>

\* str(device_id.get(key, "")).lower() of an identity string.
IdentityLower(x) == IF x.ty = "str" THEN Lower(x.s) ELSE << >>

\* _contains_key_recursive(device, key)
ContainsKeyRecursive(t, key) ==
    \E p \in DOMAIN t.leaves : \E i \in 1..Len(p) : p[i] = key

\* Step 2 of detect_data_model: the model of the first fragment of the table
\* the manufacturer contains, "" when it contains none.
ManufacturerModel(manufacturer) ==
    LET hits == {i \in DOMAIN MANUFACTURER_MODEL_MAP :
                    Contains(MANUFACTURER_MODEL_MAP[i][1], manufacturer)}
    IN  IF hits = {} THEN ""
        ELSE MANUFACTURER_MODEL_MAP[CHOOSE i \in hits : \A j \in hits : i <= j][2]

\* A detector whose last step does not look at the product class.
ProductClassIgnored(product_class) == "TR-098"

\* Steps 3 and 4 of detect_data_model.
ProductClassModel(product_class) ==
    IF Contains(<< "h", "1", "9", "6" >>, product_class) \/ Contains(<< "f", "6", "6", "0" >>, product_class)
    THEN "TR-098"
    ELSE IF Contains(<< "h", "g" >>, product_class) \/ Contains(<< "e", "g" >>, product_class)
    THEN "TR-181"
    ELSE "TR-098"

\* detect_data_model(device)
DetectDataModel(t) ==
    IF ContainsKeyRecursive(t, "Device") \/ ContainsKeyRecursive(t, "DeviceInfo") THEN "TR-181"
    ELSE IF ContainsKeyRecursive(t, "InternetGatewayDevice") THEN "TR-098"
    ELSE IF ManufacturerModel(IdentityLower(t.manufacturer)) # ""
    THEN ManufacturerModel(IdentityLower(t.manufacturer))
    ELSE ProductClassModel(IdentityLower(t.product_class))

\* The shapes of tree the detector is applied to, and the identities.
IGD_SSID == << "InternetGatewayDevice", "LANDevice", "1", "WLANConfiguration", "1", "SSID" >>
IGD_UPTIME == << "InternetGatewayDevice", "DeviceInfo", "UpTime" >>
DEV_SSID == << "Device", "WiFi", "SSID", "1", "SSID" >>
DEV_UPTIME == << "Device", "DeviceInfo", "UpTime" >>
SUMMARY_INFO == << "summary", "DeviceInfo", "ModelName" >>
NESTED_IGD == << "data", "InternetGatewayDevice", "LANDevice", "1", "WLANConfiguration", "1", "SSID" >>

DetectShapes ==
    { NoLeaves,
      Leaf(IGD_SSID, Str("casa")),
      Leaf(IGD_UPTIME, IntStr("120")),
      Leaf(IGD_SSID, Str("casa")) @@ Leaf(IGD_UPTIME, IntStr("120")),
      Leaf(DEV_SSID, Str("casa")),
      Leaf(DEV_UPTIME, IntStr("120")),
      Leaf(DEV_SSID, Str("casa")) @@ Leaf(DEV_UPTIME, IntStr("120")),
      Leaf(IGD_SSID, Str("casa")) @@ Leaf(DEV_UPTIME, IntStr("120")),
      Leaf(IGD_UPTIME, IntStr("120")) @@ Leaf(DEV_UPTIME, IntStr("120")),
      Leaf(SUMMARY_INFO, Str("x")),
      Leaf(NESTED_IGD, Str("casa")) }

Manufacturers ==
    { NoText, Text(<< "T", "P", "-", "L", "i", "n", "k" >>), Text(<< "H", "u", "a", "w", "e", "i" >>), Text(<< "Z", "T", "E" >>),
      Text(<< "A", "c", "m", "e" >>) }

ProductClasses ==
    { NoText, Text(<< "F", "6", "6", "0" >>), Text(<< "H", "G", "8", "2", "4", "5" >>), Text(<< "A", "r", "c", "h", "e", "r" >>) }

DetectTrees == { Tree(l, m, pc) : l \in DetectShapes, m \in Manufacturers, pc \in ProductClasses }

\* detect_data_model applied to tree t.
ProbeDetectDataModel(t) ==
    /\ probe = NoProbe
    /\ probe' = [ fn |-> "detect_data_model", tree |-> t, out |-> DetectDataModel(t) ]
    /\ UNCHANGED << devices, backups, events, posts, taskHistory, now, procs, last,
                    cbHist, monVars >>

\* PARAM_MAP, the entries of the logical names the model reads and writes.
PARAM_MAP ==
    ("wifi.radio.channel" :> (("TR-098" :> << "InternetGatewayDevice", "LANDevice", "1", "WLANConfiguration", "{radio}", "Channel" >>)
          @@ ("TR-181" :> << "Device", "WiFi", "Radio", "{radio}", "Channel" >>)))
    @@ ("wifi.ssid" :> (("TR-098" :> << "InternetGatewayDevice", "LANDevice", "1", "WLANConfiguration", "{radio}", "SSID" >>)
          @@ ("TR-181" :> << "Device", "WiFi", "SSID", "{radio}", "SSID" >>)))
    @@ ("wifi.security.password" :> (("TR-098" :> << "InternetGatewayDevice", "LANDevice", "1", "WLANConfiguration", "{radio}", "PreSharedKey" >>)
          @@ ("TR-181" :> << "Device", "WiFi", "AccessPoint", "{radio}", "Security", "KeyPassphrase" >>)))
    @@ ("wifi.security.password.alt" :> (("TR-098" :> << "InternetGatewayDevice", "LANDevice", "1", "WLANConfiguration", "{radio}", "X_TP_PreSharedKey" >>)
          @@ ("TR-181" :> << "Device", "WiFi", "AccessPoint", "{radio}", "Security", "KeyPassphrase" >>)))
    @@ ("lan.dhcp.enable" :> (("TR-098" :> << "InternetGatewayDevice", "LANDevice", "1", "LANHostConfigManagement", "DHCPServerEnable" >>)
          @@ ("TR-181" :> << "Device", "DHCPv4", "Server", "Pool", "1", "Enable" >>)))

\* The vars argument: a function from a placeholder's name to its value.
NoVars == [x \in {} |-> ""]
RadioVars(radio) == [x \in {"radio"} |-> radio]

\* re.sub(rf"\{{{key}\}}", str(value), path) for every key of vars.
SubstituteVars(path, vs) ==
    [ i \in 1..Len(path) |->
        IF \E k \in DOMAIN vs : path[i] = "{" \o k \o "}"
        THEN vs[CHOOSE k \in DOMAIN vs : path[i] = "{" \o k \o "}"]
        ELSE path[i] ]

OtherModel(model) == IF model = "TR-181" THEN "TR-098" ELSE "TR-181"

\* get_path(device, logical_path, vs); a name outside the table is returned
\* as it is, a path of one part.
GetPath(t, logical_path, vs) ==
    IF logical_path \in DOMAIN PARAM_MAP
    THEN SubstituteVars(PARAM_MAP[logical_path][DetectDataModel(t)], vs)
    ELSE << logical_path >>

\* A node of the tree that is not a leaf, as a Python value.
DictValue == [ty |-> "dict", v |-> "{}"]

\* get_value_by_path(device, path, default)
GetValueByPath(t, path, default) ==
    IF path \in DOMAIN t.leaves THEN t.leaves[path]
    ELSE IF \E p \in DOMAIN t.leaves : Len(p) > Len(path) /\ SubSeq(p, 1, Len(path)) = path
    THEN DictValue
    ELSE default

\* get_value(device, logical_path, vs, default)
NormalizerGetValue(t, logical_path, vs, default) ==
    LET model == DetectDataModel(t)
        preferred == PARAM_MAP[logical_path][model]
        other == PARAM_MAP[logical_path][OtherModel(model)]
        paths_to_try ==
            IF logical_path \in DOMAIN PARAM_MAP
            THEN << preferred >> \o (IF other # preferred THEN << other >> ELSE << >>)
            ELSE << GetPath(t, logical_path, vs) >>
        val(i) == GetValueByPath(t, SubstituteVars(paths_to_try[i], vs), None)
        hits == {i \in DOMAIN paths_to_try : val(i) # None /\ val(i) # Str("")}
    IN  IF hits # {} THEN val(CHOOSE i \in hits : \A j \in hits : i <= j)
        ELSE GetValueByPath(t, GetPath(t, logical_path, vs), default)

\* MANUFACTURER_PATH_OVERRIDES, one entry per (manufacturer, logical name,
\* data model) in the order of the dicts.
Override(key, logical_path, model, paths) ==
    [key |-> key, logical_path |-> logical_path, model |-> model, paths |-> paths]
MANUFACTURER_PATH_OVERRIDES ==
    << Override(<< "T", "P", "-", "L", "i", "n", "k" >>, "wifi.security.password", "TR-098",
                << << "InternetGatewayDevice", "LANDevice", "1", "WLANConfiguration", "{radio}", "PreSharedKey", "1", "PreSharedKey" >>,
                   << "InternetGatewayDevice", "LANDevice", "1", "WLANConfiguration", "{radio}", "KeyPassphrase" >>,
                   << "InternetGatewayDevice", "LANDevice", "1", "WLANConfiguration", "{radio}", "X_TP_PreSharedKey" >> >>),
       Override(<< "T", "P", "-", "L", "i", "n", "k" >>, "wifi.ssid", "TR-098",
                << << "InternetGatewayDevice", "LANDevice", "1", "WLANConfiguration", "{radio}", "SSID" >> >>),
       Override(<< "T", "P", "-", "L", "i", "n", "k" >>, "wifi.radio.channel", "TR-098",
                << << "InternetGatewayDevice", "LANDevice", "1", "WLANConfiguration", "{radio}", "Channel" >> >>),
       Override(<< "I", "n", "t", "e", "l", "b", "r", "a", "s" >>, "wifi.security.password", "TR-098",
                << << "InternetGatewayDevice", "LANDevice", "1", "WLANConfiguration", "{radio}", "PreSharedKey", "1", "PreSharedKey" >>,
                   << "InternetGatewayDevice", "LANDevice", "1", "WLANConfiguration", "{radio}", "KeyPassphrase" >> >>),
       Override(<< "Z", "T", "E" >>, "wifi.security.password", "TR-098",
                << << "InternetGatewayDevice", "LANDevice", "1", "WLANConfiguration", "{radio}", "PreSharedKey", "1", "PreSharedKey" >>,
                   << "InternetGatewayDevice", "LANDevice", "1", "WLANConfiguration", "{radio}", "WPAKey" >> >>),
       Override(<< "H", "u", "a", "w", "e", "i" >>, "wifi.security.password", "TR-181",
                << << "Device", "WiFi", "AccessPoint", "{radio}", "Security", "KeyPassphrase" >>,
                   << "Device", "WiFi", "AccessPoint", "{radio}", "Security", "PreSharedKey" >> >>),
       Override(<< "F", "i", "b", "e", "r", "h", "o", "m", "e" >>, "wifi.security.password", "TR-181",
                << << "Device", "WiFi", "AccessPoint", "{radio}", "Security", "KeyPassphrase" >> >>) >>

\* device_data.get("_deviceId", {}).get("_Manufacturer", "Unknown")
RouterManufacturer(t) ==
    IF t.manufacturer.ty = "str" THEN t.manufacturer.s ELSE << "U", "n", "k", "n", "o", "w", "n" >>

RECURSIVE ManufacturerPathsFrom(_, _, _, _, _)
ManufacturerPathsFrom(i, manufacturer, logical_path, data_model, vs) ==
    IF i > Len(MANUFACTURER_PATH_OVERRIDES) THEN << >>
    ELSE LET o == MANUFACTURER_PATH_OVERRIDES[i]
         IN  (IF /\ Contains(Lower(o.key), Lower(manufacturer))
                 /\ o.logical_path = logical_path
                 /\ o.model = data_model
              THEN [j \in 1..Len(o.paths) |-> SubstituteVars(o.paths[j], vs)]
              ELSE << >>)
             \o ManufacturerPathsFrom(i + 1, manufacturer, logical_path, data_model, vs)

\* get_manufacturer_paths(manufacturer, logical_path, data_model, vs)
GetManufacturerPaths(manufacturer, logical_path, data_model, vs) ==
    ManufacturerPathsFrom(1, manufacturer, logical_path, data_model, vs)

\* The trees get_value is applied to: a value, an empty string or nothing at
\* the Wi-Fi passphrase paths of radio 1.
W1_PSK == << "InternetGatewayDevice", "LANDevice", "1", "WLANConfiguration", "1", "PreSharedKey" >>
W1_PSK11 == << "InternetGatewayDevice", "LANDevice", "1", "WLANConfiguration", "1", "PreSharedKey", "1", "PreSharedKey" >>
W1_KEYPASS == << "InternetGatewayDevice", "LANDevice", "1", "WLANConfiguration", "1", "KeyPassphrase" >>
AP1_KEYPASS == << "Device", "WiFi", "AccessPoint", "1", "Security", "KeyPassphrase" >>

LeafChoices(p, v) == { NoLeaves, Leaf(p, Str("")), Leaf(p, Str(v)) }
GetShapes ==
    { a @@ b @@ c @@ d :
        a \in LeafChoices(W1_PSK, "padrao") \cup {Leaf(W1_PSK, None)},
        b \in LeafChoices(W1_PSK11, "segredo"),
        c \in LeafChoices(W1_KEYPASS, "frase"),
        d \in LeafChoices(AP1_KEYPASS, "outra") }
GetTrees ==
    { Tree(l, m, NoText) : l \in GetShapes,
                           m \in { NoText, Text(<< "T", "P", "-", "L", "i", "n", "k" >>), Text(<< "H", "u", "a", "w", "e", "i" >>) } }
GetNames == { "wifi.security.password", "wifi.ssid", "foo.bar" }

\* get_value applied to tree t.
ProbeGetValue(t, logical_path, vs, default) ==
    /\ probe = NoProbe
    /\ probe' = [ fn |-> "get_value", tree |-> t, logical_path |-> logical_path, vars |-> vs,
                  default |-> default,
                  out |-> NormalizerGetValue(t, logical_path, vs, default) ]
    /\ UNCHANGED << devices, backups, events, posts, taskHistory, now, procs, last,
                    cbHist, monVars >>

\* The Python values a caller passes to a write: ty is the runtime type, n the
\* number of a bool or an int, s the characters of a str or the repr of a float.
PyNone == [ty |-> "none", n |-> 0, s |-> << >>]
PyBool(b) == [ty |-> "bool", n |-> IF b THEN 1 ELSE 0, s |-> << >>]
PyInt(n) == [ty |-> "int", n |-> n, s |-> << >>]
PyFloat(s) == [ty |-> "float", n |-> 0, s |-> s]
PyStr(s) == [ty |-> "str", n |-> 0, s |-> s]

DigitChars == << "0", "1", "2", "3", "4", "5", "6", "7", "8", "9" >>

\* str(n) of an int.
RECURSIVE NatStr(_)
NatStr(n) == IF n < 10 THEN << DigitChars[n + 1] >> ELSE NatStr(n \div 10) \o << DigitChars[(n % 10) + 1] >>
IntToStr(n) == IF n < 0 THEN << "-" >> \o NatStr(0 - n) ELSE NatStr(n)

\* str(value)
PyStrOf(value) ==
    IF value.ty = "none" THEN << "N", "o", "n", "e" >>
    ELSE IF value.ty = "bool" THEN (IF value.n = 1 THEN << "T", "r", "u", "e" >> ELSE << "F", "a", "l", "s", "e" >>)
    ELSE IF value.ty = "int" THEN IntToStr(value.n)
    ELSE value.s

\* s.strip() for blanks.
Strip(s) ==
    LET inked == {i \in DOMAIN s : s[i] # " "}
    IN  IF inked = {} THEN << >>
        ELSE SubSeq(s, CHOOSE i \in inked : \A j \in inked : i <= j,
                       CHOOSE i \in inked : \A j \in inked : i >= j)

\* Whether int(value) returns for a str: blanks around, an optional sign, and
\* decimal digits.
IntParses(s) ==
    LET body == Strip(s)
        digits == IF body # << >> /\ body[1] \in {"+", "-"} THEN Tail(body) ELSE body
    IN  digits # << >> /\ \A i \in DOMAIN digits : \E d \in DOMAIN DigitChars : digits[i] = DigitChars[d]

\* TR069Normalizer.infer_xsd_type(value)
NormalizerInferXsdType(value) ==
    IF value.ty = "bool" THEN "xsd:boolean"
    ELSE IF value.ty = "int" THEN "xsd:unsignedInt"
    ELSE "xsd:string"

\* infer_xsd_type(value) of the router.
InferXsdType(value) ==
    IF value.ty = "bool" THEN "xsd:boolean"
    ELSE IF value.ty = "int" THEN "xsd:unsignedInt"
    ELSE IF value.ty = "float" THEN "xsd:string"
    ELSE IF Lower(PyStrOf(value)) \in { << "t", "r", "u", "e" >>, << "f", "a", "l", "s", "e" >> } THEN "xsd:boolean"
    ELSE IF value.ty = "str" /\ IntParses(value.s) THEN "xsd:unsignedInt"
    ELSE "xsd:string"

\* normalize_value(value, xsd_type)
NormalizeValue(value, xsd_type) ==
    IF xsd_type = "xsd:boolean"
    THEN IF value.ty = "bool" THEN Lower(PyStrOf(value))
         ELSE IF Lower(PyStrOf(value)) \in { << "t", "r", "u", "e" >>, << "1" >>, << "y", "e", "s" >>, << "o", "n" >> }
         THEN << "t", "r", "u", "e" >>
         ELSE << "f", "a", "l", "s", "e" >>
    ELSE PyStrOf(value)

\* One element of the parameters list: {"path", "value", "type"?, "vars"?};
\* type "" is a request without a type.
SetParam(path, value, type, vs) == [path |-> path, value |-> value, type |-> type, vars |-> vs]

\* No instruction: the parameter was refused.
NoInstruction == [emitted |-> FALSE, path |-> << >>, value |-> << >>, type |-> ""]
Instruction(path, value, type) == [emitted |-> TRUE, path |-> path, value |-> value, type |-> type]

\* build_set_params(device, [param]): the instruction of one parameter.
BuildSetParams(t, param) ==
    Instruction(GetPath(t, param.path, param.vars),
                PyStrOf(param.value),
                IF param.type # "" THEN param.type ELSE NormalizerInferXsdType(param.value))

\* smart_set_parameter_values: the instruction of one parameter with a logical
\* path, none when the value is None.
SmartSetParam(t, param) ==
    LET xsd_type == IF param.type # "" THEN param.type ELSE InferXsdType(param.value)
        manu_paths == GetManufacturerPaths(RouterManufacturer(t), param.path, DetectDataModel(t), param.vars)
    IN  IF param.value = PyNone THEN NoInstruction
        ELSE Instruction(IF manu_paths # << >> THEN manu_paths[1] ELSE GetPath(t, param.path, param.vars),
                         NormalizeValue(param.value, xsd_type),
                         xsd_type)

\* The values, parameters and trees the writes are built for.
SetValues ==
    { PyNone, PyBool(TRUE), PyBool(FALSE), PyInt(0), PyInt(6), PyInt(-1), PyInt(149),
      PyFloat(<< "1", ".", "5" >>),
      PyStr(<< "c", "a", "s", "a" >>), PyStr(<< "1", "2", "3", "4", "5", "6", "7", "8" >>), PyStr(<< "T", "r", "u", "e" >>),
      PyStr(<< "f", "a", "l", "s", "e" >>), PyStr(<< " ", "4", "2", " " >>), PyStr(<< "-", "7" >>),
      PyStr(<< "1", ".", "5" >>), PyStr(<< >>) }
SetNames == { "wifi.ssid", "wifi.security.password", "wifi.radio.channel", "lan.dhcp.enable", "foo.bar" }
SetParams ==
    { SetParam(n, v, ty, vs) : n \in SetNames, v \in SetValues, ty \in {"", "xsd:string"},
                               vs \in {NoVars, RadioVars("1")} }
SetTrees ==
    { Tree(l, m, NoText) :
        l \in { NoLeaves, Leaf(IGD_SSID, Str("casa")), Leaf(DEV_SSID, Str("casa")) },
        m \in { NoText, Text(<< "T", "P", "-", "L", "i", "n", "k" >>), Text(<< "H", "u", "a", "w", "e", "i" >>) } }

\* build_set_params and the smart endpoint applied to one parameter.
ProbeBuildSetParams(t, param) ==
    /\ probe = NoProbe
    /\ probe' = [ fn |-> "build_set_params", tree |-> t, param |-> param,
                  out |-> BuildSetParams(t, param) ]
    /\ UNCHANGED << devices, backups, events, posts, taskHistory, now, procs, last,
                    cbHist, monVars >>

ProbeSmartSet(t, param) ==
    /\ probe = NoProbe
    /\ probe' = [ fn |-> "smart_set", tree |-> t, param |-> param,
                  out |-> SmartSetParam(t, param) ]
    /\ UNCHANGED << devices, backups, events, posts, taskHistory, now, procs, last,
                    cbHist, monVars >>

(***************************************************************************)
(* app/routers/mobile_api_router.py: the radio and SSID indices of a       *)
(* TR-181 tree (detect_device_paths, extract_device_info) and the Wi-Fi    *)
(* write of configure_wifi.  A Wi-Fi tree is Device.WiFi: radio maps a     *)
(* Radio index to its OperatingFrequencyBand, ssid maps an SSID index to   *)
(* its LowerLayers; an index outside the domain is an object that is not   *)
(* there.                                                                  *)
(***************************************************************************)
\* The indices the two loops visit, in their order.
RADIO_INDEXES == << "1", "2", "3", "4" >>
SSID_INDEXES == << "1", "2", "3", "4", "5", "6", "7", "8" >>

WifiTree(radio, ssid) == [radio |-> radio, ssid |-> ssid]

\* str(radio_entries.get(idx, {}).get('OperatingFrequencyBand', {}).get('_value', ''))
BandOf(t, idx) == IF idx \in DOMAIN t.radio THEN t.radio[idx] ELSE << >>
\* str(ssid_entries.get(idx, {}).get('LowerLayers', {}).get('_value', ''))
LowerLayersOf(t, idx) == IF idx \in DOMAIN t.ssid THEN t.ssid[idx] ELSE << >>

\* The index a loop over indexes ends with when it assigns at every position in
\* passing, the positions whose entry passes the loop's test ("" for None).
LastPassing(indexes, passing) ==
    IF passing = {} THEN ""
    ELSE indexes[CHOOSE i \in passing : \A j \in passing : i >= j]
\* The index the loop ends with when it assigns only while the variable is None.
FirstPassing(indexes, passing) ==
    IF passing = {} THEN ""
    ELSE indexes[CHOOSE i \in passing : \A j \in passing : i <= j]

\* radio_2g_idx and radio_5g_idx after the loop over the radios.
Is2gBand(band) == Contains(<< "2", ".", "4" >>, band)
Is5gBand(band) == ~ Is2gBand(band) /\ Contains(<< "5" >>, band)
Radio2gIdx(t) ==
    LastPassing(RADIO_INDEXES,
                {i \in DOMAIN RADIO_INDEXES : Is2gBand(BandOf(t, RADIO_INDEXES[i]))})
Radio5gIdx(t) ==
    LastPassing(RADIO_INDEXES,
                {i \in DOMAIN RADIO_INDEXES : Is5gBand(BandOf(t, RADIO_INDEXES[i]))})

\* f'Radio.{idx}' in lower_layers, for a radio index that is not None.
NamesRadio(lower_layers, radio_idx) ==
    radio_idx # "" /\ Contains(<< "R", "a", "d", "i", "o", "." >> \o << radio_idx >>, lower_layers)

\* An SSID loop that assigns at every matching entry.
LastSsid(indexes, passing) == LastPassing(indexes, passing)
\* "Primeiro encontrado é o principal"
PrimarySsid(indexes, passing) == FirstPassing(indexes, passing)

\* ssid_2g_idx and ssid_5g_idx after the loop over the SSIDs.
Ssid2gIdx(t) ==
    PrimarySsid(SSID_INDEXES,
                {i \in DOMAIN SSID_INDEXES :
                    NamesRadio(LowerLayersOf(t, SSID_INDEXES[i]), Radio2gIdx(t))})
Ssid5gIdx(t) ==
    PrimarySsid(SSID_INDEXES,
                {i \in DOMAIN SSID_INDEXES :
                    /\ ~ NamesRadio(LowerLayersOf(t, SSID_INDEXES[i]), Radio2gIdx(t))
                    /\ NamesRadio(LowerLayersOf(t, SSID_INDEXES[i]), Radio5gIdx(t))})

\* The keys of the paths dict of one band, and the paths detect_device_paths
\* gives them for SSID index s and radio index r.
BandKeys(band) ==
    { "wifi_" \o band \o "_enabled", "wifi_" \o band \o "_ssid", "wifi_" \o band \o "_password",
      "wifi_" \o band \o "_channel", "wifi_" \o band \o "_hidden" }
BandPaths(band, s, r) ==
    ("wifi_" \o band \o "_enabled" :> << "Device", "WiFi", "SSID", s, "Enable" >>)
    @@ ("wifi_" \o band \o "_ssid" :> << "Device", "WiFi", "SSID", s, "SSID" >>)
    @@ ("wifi_" \o band \o "_password" :> << "Device", "WiFi", "AccessPoint", s, "Security", "KeyPassphrase" >>)
    @@ ("wifi_" \o band \o "_channel" :> << "Device", "WiFi", "Radio", r, "Channel" >>)
    @@ ("wifi_" \o band \o "_hidden" :> << "Device", "WiFi", "AccessPoint", s, "SSIDAdvertisementEnabled" >>)
NoPaths == [k \in {} |-> << >>]

\* detect_device_paths(device) for a tree with 'Device' and without
\* 'InternetGatewayDevice' at its root.
DetectDevicePaths(t) ==
    (IF Ssid2gIdx(t) # "" THEN BandPaths("2g", Ssid2gIdx(t), Radio2gIdx(t)) ELSE NoPaths)
    @@ (IF Ssid5gIdx(t) # "" THEN BandPaths("5g", Ssid5gIdx(t), Radio5gIdx(t)) ELSE NoPaths)

\* The wifi_2g and wifi_5g of extract_device_info: for each band, whether a
\* WifiInfo is reported and the SSID and Radio objects it is read from.
NoWifiInfo == [present |-> FALSE, ssid_idx |-> "", radio_idx |-> ""]
WifiInfo(s, r) == [present |-> TRUE, ssid_idx |-> s, radio_idx |-> r]
ExtractDeviceInfo(t) ==
    [ wifi_2g |-> IF Ssid2gIdx(t) # "" THEN WifiInfo(Ssid2gIdx(t), Radio2gIdx(t)) ELSE NoWifiInfo,
      wifi_5g |-> IF Ssid5gIdx(t) # "" THEN WifiInfo(Ssid5gIdx(t), Radio5gIdx(t)) ELSE NoWifiInfo ]

\* configure_wifi for a request that gives the settings named by the keys in
\* request: the paths written, and the HTTP status before the task is sent
\* (400 when no parameter is left, 0 when the task goes to the ACS).
ConfigureWifi(t, request) ==
    LET paths == DetectDevicePaths(t)
        parameters == { paths[k] : k \in request \cap DOMAIN paths }
    IN  [ parameters |-> parameters, status |-> IF parameters = {} THEN 400 ELSE 0 ]

\* The Wi-Fi trees: three radios and three SSIDs, each there or not.
Bands == { << "2", ".", "4", "G", "H", "z" >>, << "5", "G", "H", "z" >> }
RadioRefs == { << "D", "e", "v", "i", "c", "e", ".", "W", "i", "F", "i", ".", "R", "a", "d", "i", "o", ".", "1" >>, << "D", "e", "v", "i", "c", "e", ".", "W", "i", "F", "i", ".", "R", "a", "d", "i", "o", ".", "2" >>, << "D", "e", "v", "i", "c", "e", ".", "W", "i", "F", "i", ".", "R", "a", "d", "i", "o", ".", "3" >> }
WifiIndexes == {"1", "2", "3"}
RadioTables == UNION { [D -> Bands] : D \in SUBSET WifiIndexes }
SsidTables == UNION { [D -> RadioRefs] : D \in SUBSET WifiIndexes }
WifiTrees == { WifiTree(r, s) : r \in RadioTables, s \in SsidTables }
WifiRequests ==
    { {"wifi_2g_ssid"}, {"wifi_5g_ssid"}, {"wifi_2g_ssid", "wifi_5g_ssid"},
      {"wifi_2g_password", "wifi_2g_channel"}, {"wifi_5g_enabled", "wifi_5g_hidden"} }

ProbeDetectDevicePaths(t) ==
    /\ probe = NoProbe
    /\ probe' = [ fn |-> "detect_device_paths", tree |-> t, out |-> DetectDevicePaths(t),
                  ssid_2g_idx |-> Ssid2gIdx(t), ssid_5g_idx |-> Ssid5gIdx(t),
                  radio_2g_idx |-> Radio2gIdx(t), radio_5g_idx |-> Radio5gIdx(t) ]
    /\ UNCHANGED << devices, backups, events, posts, taskHistory, now, procs, last,
                    cbHist, monVars >>

ProbeExtractDeviceInfo(t) ==
    /\ probe = NoProbe
    /\ probe' = [ fn |-> "extract_device_info", tree |-> t, out |-> ExtractDeviceInfo(t) ]
    /\ UNCHANGED << devices, backups, events, posts, taskHistory, now, procs, last,
                    cbHist, monVars >>

ProbeConfigureWifi(t, request) ==
    /\ probe = NoProbe
    /\ probe' = [ fn |-> "configure_wifi", tree |-> t, request |-> request,
                  out |-> ConfigureWifi(t, request) ]
    /\ UNCHANGED << devices, backups, events, posts, taskHistory, now, procs, last,
                    cbHist, monVars >>

(***************************************************************************)
(* Specifications                                                          *)
(***************************************************************************)
\* The store operations on the devices D: Device rows, backups, toggle, delete.
StoreNext(D) ==
    \/ \E d \in D : UpsertDevice(d)
    \/ \E d \in D, k \in DocNames : CreateBackupCall(d, k)
    \/ \E s \in Serials, en \in BOOLEAN : ToggleAutoRestore(s, en)
    \/ \E d \in D : DeleteDeviceBackup(d)

\* The restores for the devices D, by the monitor and by the endpoint.
RestoreNext(D) ==
    \/ \E d \in D, resp \in Responses : MonitorRestore(d, resp)
    \/ \E d \in D, force \in BOOLEAN, resp \in Responses : RestoreEndpoint(d, force, resp)

\* One handler at a time, in any order, on every device id.
Next ==
    \/ StoreNext(DeviceIds)
    \/ \E d \in DeviceIds, resp \in Responses :
          MonitorRestore(d, resp) /\ Len(events') <= MaxFleetEvents
    \/ \E d \in DeviceIds, force \in BOOLEAN, resp \in Responses :
          RestoreEndpoint(d, force, resp) /\ Len(events') <= MaxFleetEvents

Spec == Init /\ [][Next]_vars

\* The store operations alone.
SpecStore == Init /\ [][StoreNext(DeviceIds)]_vars

\* One handler at a time, in any order, on one device id.
SpecRestore == Init /\ [][StoreNext({"d1"}) \/ RestoreNext({"d1"})]_vars

\* Successive create_backup calls for one device id and nothing else.
BackupNext ==
    \/ UpsertDevice("d1")
    \/ \E k \in DocNames : BackupExtraction("d1", k)

SpecBackup == Init /\ [][BackupNext]_vars

\* The monitor and the API working on one device at the same time.
ConcNext ==
    \/ UpsertDevice("d1")
    \/ \E p \in Procs, k \in DocNames : CbRead(p, "d1", k)
    \/ \E p \in Procs : CbWrite(p)
    \/ \E p \in Procs : ArBegin(p, "d1")
    \/ \E p \in Procs, resp \in Responses : ArFinish(p, resp)

SpecConc == Init /\ [][ConcNext]_vars

\* The same with the progress the code gives: the POST of _send_restore_task
\* is awaited with timeout=60, so it returns or raises, and the coroutine
\* that awaits it runs on to its commit.
SpecConcLive ==
    SpecConc /\ \A p \in Procs : WF_vars(\E resp \in Responses : ArFinish(p, resp))

\* The monitor's cycles on one device id, the Device row and the backups the
\* API creates for it.
MonitorNext ==
    \/ UpsertDevice("d1")
    \/ MonitorStart
    \/ \E k \in DocNames : CreateBackupCall("d1", k)
    \/ \E o \in CycleObservations :
          ProcessDevice("d1", o) /\ Len(events') <= MaxMonitorEvents

SpecMonitor == Init /\ [][MonitorNext]_vars

\* The monitor's cycles on one device around a factory reset: the device
\* reports its configured tree or its factory tree, and the periodic backup
\* cycle runs between the cycles.
ResetNext ==
    \/ UpsertDevice("d1")
    \/ MonitorStart
    \/ \E k \in ResetDocNames : RunBackupCycle("d1", k)
    \/ \E k \in ResetDocNames, up \in ResetUptimes : ProcessDevice("d1", DocObservation(k, up))

SpecReset == Init /\ [][ResetNext]_vars

\* create_backup on every document, the single-setting ones included.
ExtractNext ==
    \/ \E d \in DeviceIds : UpsertDevice(d)
    \/ \E d \in DeviceIds, k \in AllDocNames : CreateBackupCall(d, k)

SpecExtract == Init /\ [][ExtractNext]_vars

\* detect_reset on every observation, previous uptime and history.
DetectNext ==
    \E o \in Observations, prev \in Uptimes \ {IntVal(0)}, kn \in SUBSET {"d1"}, had \in BOOLEAN :
        ProbeDetectReset("d1", o, prev, kn, had)

SpecDetect == Init /\ [][DetectNext]_vars

\* The functions of the normalizer, each on every input of its bounded set.
\* They keep no state, so a call does not depend on the calls before it: each
\* is made once, from the initial state.
NormalizerNext ==
    \/ \E t \in DetectTrees : ProbeDetectDataModel(t)
    \/ \E t \in GetTrees, n \in GetNames, v \in {NoVars, RadioVars("1")} :
          ProbeGetValue(t, n, v, None)
    \/ \E t \in SetTrees, param \in SetParams : ProbeBuildSetParams(t, param)
    \/ \E t \in SetTrees, param \in SetParams : ProbeSmartSet(t, param)

SpecNormalizer == Init /\ [][NormalizerNext]_vars

\* The index resolution of the mobile API on every Wi-Fi tree; the functions
\* keep no state, so each is called once, from the initial state.
MobileNext ==
    \/ \E t \in WifiTrees : ProbeDetectDevicePaths(t)
    \/ \E t \in WifiTrees : ProbeExtractDeviceInfo(t)
    \/ \E t \in WifiTrees, request \in WifiRequests : ProbeConfigureWifi(t, request)

SpecMobile == Init /\ [][MobileNext]_vars

(***************************************************************************)
(* Properties                                                              *)
(***************************************************************************)
ActiveOfSerial(bs, s) == {i \in DOMAIN bs : bs[i].serial_number = s /\ bs[i].is_active}
PostsFor(ps, e) == Cardinality({n \in DOMAIN ps : ps[n].event = e})
RestoreOps == {"auto_restore", "restore_config"}
Retryable(resp) == resp.kind \in {"timeout", "refused"}
Rejected(resp) == resp.kind = "status" /\ resp.code \notin {200, 202}

\* What the callers make of auto_restore_config's boolean: the endpoint
\* answers 200 or 500 "Falha ao restaurar", the monitor logs the same two.
ReportedOutcome(ok) == IF ok THEN "success" ELSE "failed"

\* C1: after any sequence of create_backup, restore, toggle and delete calls,
\* every serial number has at most one active snapshot, also when the serial
\* is reported under two device ids.
C1_OneActivePerSerial ==
    \A s \in Serials : Cardinality(ActiveOfSerial(backups, s)) <= 1

DistinctHashes(h) == Cardinality({h[i] : i \in DOMAIN h})
HashRuns(h) == Cardinality({i \in DOMAIN h : i = 1 \/ h[i] # h[i - 1]})

\* C2 as claimed: after successive create_backup extractions the number of
\* snapshots is the number of distinct hashes extracted, and exactly the most
\* recently created snapshot is active.
C2_SnapshotPerDistinctHash ==
    /\ Len(backups) = DistinctHashes(cbHist)
    /\ \A i \in DOMAIN backups : backups[i].is_active <=> i = Len(backups)

\* C2 as amended: for one device id, the number of snapshots is the number
\* of times the extracted hash differed from the one extracted just before
\* (a hash that comes back after another one is stored again), the most
\* recently created snapshot holds the last hash and it alone is active.
C2_SnapshotPerHashChange ==
    /\ Len(backups) = HashRuns(cbHist)
    /\ \A i \in DOMAIN backups : backups[i].is_active <=> i = Len(backups)
    /\ cbHist # << >> =>
          ComputeConfigHash(WifiOf(backups[Len(backups)]), WanOf(backups[Len(backups)]),
                            LanOf(backups[Len(backups)])) = cbHist[Len(cbHist)]

\* The hashes A, B, A were extracted and three snapshots are stored.
C2_Witness ==
    /\ Len(backups) = 3
    /\ \E i, j, k \in DOMAIN cbHist :
          i < j /\ j < k /\ cbHist[i] = cbHist[k] /\ cbHist[i] # cbHist[j]

\* C3: a second create_backup call on the same device with the same document
\* leaves the store as it is and returns the same, still active, snapshot,
\* whose content hash is the hash of the document.
C3_Idempotent ==
    [][ ( /\ last.op = "create_backup" /\ last'.op = "create_backup"
          /\ last'.dev = last.dev /\ last'.doc = last.doc )
        => /\ backups' = backups
           /\ last'.ret = last.ret
           /\ last'.ret # 0 =>
                 /\ backups'[last'.ret].is_active
                 /\ ComputeConfigHash(WifiOf(backups'[last'.ret]), WanOf(backups'[last'.ret]),
                                      LanOf(backups'[last'.ret]))
                    = ComputeConfigHash(ExtractTable[last'.doc, last'.dev].wifi,
                                        ExtractTable[last'.doc, last'.dev].wan,
                                        ExtractTable[last'.doc, last'.dev].lan) ]_vars

\* create_backup was called twice in a row on one document and returned a snapshot.
C3_Witness == last.op = "create_backup" /\ last.rep /\ last.ret # 0

\* C4: with the monitor and the API both inside create_backup for one
\* device, no interleaving ends with two active snapshots for the serial.
C4_SerializedBackups ==
    (\A p \in Procs : procs[p].pc = "idle")
        => \A s \in Serials : Cardinality(ActiveOfSerial(backups, s)) < 2

\* C5: two restore submissions for one serial number are never in flight at once.
C5_OneRestoreInFlight ==
    \A p, q \in Procs :
        (p # q /\ procs[p].pc = "ar_wait" /\ procs[q].pc = "ar_wait")
            => SerialOf(procs[p].dev) # SerialOf(procs[q].dev)

\* The serial has no snapshot that is both active and restore-enabled.
NoRestorable(bs, s) ==
    ~ \E i \in DOMAIN bs :
          bs[i].serial_number = s /\ bs[i].is_active /\ bs[i].is_auto_restore_enabled
RestoreCalled == last'.op \in RestoreOps /\ last' # last

Restored(bs, i, time) ==
    [bs EXCEPT ![i].restore_count = bs[i].restore_count + 1, ![i].last_restored_at = time]
Is2xx(resp) == resp.kind = "status" /\ resp.code \in 200..299

\* C7 as claimed: when the controller answers the submission with any 2xx
\* status, the event is marked 'success', the snapshot's restore counter
\* goes up by exactly one and its last-restored time is stamped.
C7_Any2xxSucceeds ==
    [][ (RestoreCalled /\ last'.ret # 0 /\ Is2xx(last'.resp))
        => /\ events'[last'.ret].restore_status = "success"
           /\ \E i \in DOMAIN backups : backups' = Restored(backups, i, now') ]_vars

\* C7 as amended: the same, when the controller answers 200 or 202.
C7_AcceptedSucceeds ==
    [][ (RestoreCalled /\ last'.ret # 0
            /\ last'.resp.kind = "status" /\ last'.resp.code \in {200, 202})
        => /\ last'.ok
           /\ events'[last'.ret].restore_status = "success"
           /\ \E i \in GetActiveBackup(backups, SerialOf(last'.dev)) :
                 backups' = Restored(backups, i, now') ]_vars

\* A restore was answered 202 and the snapshot counts one restore.
C7_Witness ==
    /\ last.op \in RestoreOps /\ last.ok /\ last.resp = Response("status", 202)
    /\ last.ret # 0 /\ events[last.ret].restore_status = "success"
    /\ \E i \in DOMAIN backups :
          backups[i].restore_count = 1 /\ backups[i].last_restored_at = now

\* C8: every event the orchestrator records has exactly one task submission,
\* sent to the event's device, also when the submission failed in transport.
C8_OneSubmissionPerEvent ==
    /\ \A e \in DOMAIN events : PostsFor(posts, e) = 1
    /\ \A n \in DOMAIN posts :
          posts[n].event \in DOMAIN events
          /\ posts[n].device = events[posts[n].event].genie_device_id

\* A submission timed out: the event is failed and has its one submission.
C8_Witness ==
    /\ last.op \in RestoreOps /\ last.ret # 0 /\ last.resp.kind = "timeout"
    /\ events[last.ret].restore_status = "failed"
    /\ PostsFor(posts, last.ret) = 1

C10_FailedRestoreFrame ==
    [][ /\ (RestoreCalled /\ last'.ret # 0 /\ ~ last'.ok)
           => /\ events'[last'.ret].restore_status = "failed"
              /\ backups' = backups
              /\ taskHistory' = taskHistory
        /\ \A e \in DOMAIN events :
              events[e].restore_status = "failed"
                 => /\ e \in DOMAIN events' /\ events'[e] = events[e]
                    /\ PostsFor(posts', e) = PostsFor(posts, e) ]_vars

\* An event is recorded as failed and another operation has run since.
C10_Witness ==
    /\ \E e \in DOMAIN events : events[e].restore_status = "failed"
    /\ last.op \in {"create_backup", "toggle_auto_restore", "delete_device_backup"}
    /\ \A i \in DOMAIN backups : backups[i].restore_count = 0

\* C15: snapshots are never physically deleted: no operation makes the table
\* shorter or changes which serial, device and content a stored row has, and
\* the delete endpoint only sets is_active of the row it names to false.
C15_NeverDeleted ==
    [][ /\ Len(backups') >= Len(backups)
        /\ Len(backups') >= Len(backups) =>
              \A i \in DOMAIN backups :
                  /\ backups'[i].serial_number = backups[i].serial_number
                  /\ backups'[i].device = backups[i].device
                  /\ backups'[i].source = backups[i].source
                  /\ backups'[i].tr069_params = backups[i].tr069_params
        /\ last'.op = "delete_device_backup" =>
              /\ last'.ret \in DOMAIN backups
              /\ backups' = [backups EXCEPT ![last'.ret].is_active = FALSE] ]_vars

\* The delete endpoint has run and its row is still stored, inactive.
C15_Witness ==
    /\ last.op = "delete_device_backup"
    /\ last.ret \in DOMAIN backups
    /\ ~ backups[last.ret].is_active

\* A step of process_device, and the reasons a reset event may carry: the
\* detector's own name for the rule that fired, or the name the design gives it.
ProcessStep == obs'.tick # obs.tick
EventReason(e) == e.event_type
ReasonNames(r) ==
    IF r = "uptime_decreased" THEN {r, "uptime-regression"}
    ELSE IF r = "factory_reset_ssid" THEN {r, "default-ssid"}
    ELSE IF r = "pppoe_lost" THEN {r, "credential-loss"}
    ELSE {}
EventAdded == Len(events') = Len(events) + 1

\* C11: an observation whose uptime is below the known previous uptime of the
\* device is taken for a reset and produces an event whose reason is the
\* uptime regression; an observation whose uptime is above it produces none.
C11_UptimeRegressionEvent ==
    [][ (ProcessStep /\ obs'.prev.ty = "int" /\ obs'.reported.ty = "int")
        => /\ obs'.reported.n < obs'.prev.n =>
                 /\ obs'.reset
                 /\ EventAdded
                 /\ EventAdded => EventReason(events'[Len(events')]) \in ReasonNames("uptime_decreased")
           /\ obs'.reported.n > obs'.prev.n => events' = events ]_vars

\* C12: for a device the monitor knows, whose uptime is reported and is not
\* below the previous one, the detector flags a reset exactly when the uptime
\* is below the threshold and either the SSID is a factory default or the
\* device had a PPPoE username before and reports none now.
C12_LowUptimeRule ==
    ( /\ probe.fn = "detect_reset"
      /\ probe.dev \in probe.kn
      /\ ReportedUptime(probe.o).ty = "int"
      /\ probe.prev.ty = "int" => ReportedUptime(probe.o).n >= probe.prev.n )
    => ( probe.out.reset
         <=> /\ ReportedUptime(probe.o).n < RESET_UPTIME_THRESHOLD
             /\ \/ IsDefaultSsid(probe.o.ssid, SerialText(probe.dev))
                \/ probe.had /\ ~ TextTruthy(probe.o.pppoe) )

\* C13 as claimed: the first observation of a device id creates no event and
\* submits no restore.
C13_NoEventForNewDevice ==
    [][ (ProcessStep /\ obs'.dev \notin known)
        => events' = events /\ posts' = posts ]_vars

\* C13 as amended: the first observation of a device id creates an event and
\* submits a restore exactly when the serial has an active, restore-enabled
\* snapshot; otherwise it creates none and submits none, whatever the
\* uptime, SSID and PPPoE username observed.
C13_NewDeviceEventIffSnapshot ==
    [][ (ProcessStep /\ obs'.dev \notin known)
        => IF NoRestorable(backups, SerialOf(obs'.dev))
           THEN events' = events /\ posts' = posts
           ELSE /\ EventAdded
                /\ Len(posts') = Len(posts) + 1
                /\ EventAdded => events'[Len(events')].genie_device_id = obs'.dev ]_vars

\* A device id seen for the first time, long up, was sent a restore.
C13_Witness ==
    /\ obs.is_new /\ obs.action = "restore" /\ obs.uptime = IntVal(86400)
    /\ Len(events) = 1 /\ Len(posts) = 1

\* C14: every observation taken for a reset adds exactly one event, and the
\* event carries the reason of the detection, also when there is no snapshot
\* to restore.
C14_EventPerDetection ==
    [][ (ProcessStep /\ obs'.reset)
        => /\ EventAdded
           /\ EventAdded => EventReason(events'[Len(events')]) \in ReasonNames(obs'.reason) ]_vars

\* An SSID of either band, or a PPPoE username, somewhere in the document.
SsidOrPppoeFound(t) ==
    \E path \in { WLAN_PREFIX \o "1.SSID", WLAN_PREFIX \o "2.SSID", WLAN_PREFIX \o "5.SSID",
                  "Device.WiFi.SSID.1.SSID", "Device.WiFi.SSID.2.SSID",
                  PPP_PREFIX \o ".Username", "Device.PPP.Interface.1.Username" } :
        Truthy(GetValue(t, path, None))

\* C16: a create_backup call for a device that has a row returns no snapshot
\* exactly when the document carries neither an SSID on either band nor a
\* PPPoE username, and a call that returns none leaves the store as it was.
C16_NoSnapshotIffNothingFound ==
    [][ ( /\ last'.op = "create_backup"
          /\ last' # last \/ backups' # backups
          /\ last'.dev \in devices )
        => /\ last'.ret = 0 <=> ~ SsidOrPppoeFound(DocTable[last'.doc, last'.dev])
           /\ last'.ret = 0 => backups' = backups ]_vars

\* The structural markers: a "Device" key with a "DeviceInfo" child, and an
\* "InternetGatewayDevice" key, anywhere in the tree.
DeviceWithDeviceInfo(t) ==
    \E p \in DOMAIN t.leaves : \E i \in 1..(Len(p) - 1) : p[i] = "Device" /\ p[i + 1] = "DeviceInfo"
InternetGatewayKey(t) ==
    \E p \in DOMAIN t.leaves : \E i \in 1..Len(p) : p[i] = "InternetGatewayDevice"
NoIdentity(t) == t.manufacturer = NoText /\ t.product_class = NoText

\* C17: the detector answers TR-181 for a tree with a Device substructure
\* that has a DeviceInfo child, also when InternetGatewayDevice is present
\* too; it answers TR-098 for a tree with an InternetGatewayDevice key and no
\* such substructure; and with no identity to go by it answers TR-181 only
\* for a tree with that substructure.
C17_StructuralDetection ==
    probe.fn = "detect_data_model"
    => /\ DeviceWithDeviceInfo(probe.tree) => probe.out = "TR-181"
       /\ (InternetGatewayKey(probe.tree) /\ ~ DeviceWithDeviceInfo(probe.tree))
             => probe.out = "TR-098"
       /\ (NoIdentity(probe.tree) /\ probe.out = "TR-181") => DeviceWithDeviceInfo(probe.tree)

\* The keys the detector takes for structural evidence, whether a fragment of
\* the vendor table occurs in the manufacturer, and the same tree without its
\* identity strings.
StructuralEvidence(t) ==
    \E p \in DOMAIN t.leaves : \E i \in 1..Len(p) :
        p[i] \in {"Device", "DeviceInfo", "InternetGatewayDevice"}
VendorFragmentMatches(t) ==
    \E i \in DOMAIN MANUFACTURER_MODEL_MAP :
        Contains(MANUFACTURER_MODEL_MAP[i][1], IdentityLower(t.manufacturer))
Anonymous(t) == Tree(t.leaves, NoText, NoText)

\* C18 as claimed: with structural evidence the answer is that of the tree
\* alone, whatever the manufacturer; with neither structural evidence nor a
\* vendor fragment the answer is TR-098, whatever the product class.
C18_DefaultIgnoresProductClass ==
    probe.fn = "detect_data_model"
    => /\ StructuralEvidence(probe.tree) => probe.out = DetectDataModel(Anonymous(probe.tree))
       /\ (~ StructuralEvidence(probe.tree) /\ ~ VendorFragmentMatches(probe.tree))
             => probe.out = "TR-098"

\* C18 as amended: with structural evidence the answer is that of the tree
\* alone; with neither structural evidence nor a vendor fragment the product
\* class decides: TR-098 when it contains "h196" or "f660", else TR-181 when
\* it contains "hg" or "eg", else TR-098.
C18_ProductClassBeforeDefault ==
    probe.fn = "detect_data_model"
    => /\ StructuralEvidence(probe.tree) => probe.out = DetectDataModel(Anonymous(probe.tree))
       /\ (~ StructuralEvidence(probe.tree) /\ ~ VendorFragmentMatches(probe.tree))
             => LET pc == IdentityLower(probe.tree.product_class)
                    old == Contains(<< "h", "1", "9", "6" >>, pc) \/ Contains(<< "f", "6", "6", "0" >>, pc)
                    new == Contains(<< "h", "g" >>, pc) \/ Contains(<< "e", "g" >>, pc)
                IN  probe.out = IF ~ old /\ new THEN "TR-181" ELSE "TR-098"

\* A tree without leaves, of an unknown vendor, product class HG8245, was
\* detected as TR-181.
C18_Witness ==
    /\ probe.fn = "detect_data_model"
    /\ probe.tree = Tree(NoLeaves, Text(<< "A", "c", "m", "e" >>), Text(<< "H", "G", "8", "2", "4", "5" >>))
    /\ probe.out = "TR-181"

\* The candidate paths of a logical name for a tree: the overrides of the
\* tree's vendor for the detected data model, in table order, then the
\* template of the detected data model, then that of the other one; and the
\* first value at a leaf among them that is neither None nor "".
CandidatePaths(t, logical_path, vs) ==
    GetManufacturerPaths(RouterManufacturer(t), logical_path, DetectDataModel(t), vs)
    \o (IF logical_path \in DOMAIN PARAM_MAP
        THEN << SubstituteVars(PARAM_MAP[logical_path][DetectDataModel(t)], vs),
                SubstituteVars(PARAM_MAP[logical_path][OtherModel(DetectDataModel(t))], vs) >>
        ELSE << >>)
LeafValue(t, path) == IF path \in DOMAIN t.leaves THEN t.leaves[path] ELSE None
FirstPresent(t, paths, default) ==
    LET hits == {i \in DOMAIN paths : LeafValue(t, paths[i]) # None /\ LeafValue(t, paths[i]) # Str("")}
    IN  IF hits = {} THEN default
        ELSE LeafValue(t, paths[CHOOSE i \in hits : \A j \in hits : i <= j])

\* C19: get_value returns the first non-null, non-empty leaf value among the
\* vendor overrides, the detected data model's path and the other data
\* model's path, in this order, and the default when there is none.
C19_OverridesThenDialects ==
    probe.fn = "get_value"
    => probe.out = FirstPresent(probe.tree,
                                CandidatePaths(probe.tree, probe.logical_path, probe.vars),
                                probe.default)

\* The wire type the runtime shape of a value gives.
ShapeType(value) ==
    IF value.ty = "bool" THEN "xsd:boolean"
    ELSE IF value.ty = "int" THEN "xsd:unsignedInt"
    ELSE "xsd:string"

\* C20: a write built for a value without a requested type carries the type
\* of the value's runtime shape (boolean for a bool, unsigned integer for an
\* int, string for everything else, strings that read as numbers or as
\* true/false included) and the value's text, str(value) in either letter case.
C20_TypeFromShapeOnly ==
    ( /\ probe.fn \in {"build_set_params", "smart_set"}
      /\ probe.param.type = ""
      /\ probe.param.value # PyNone )
    => /\ probe.out.emitted
       /\ probe.out.type = ShapeType(probe.param.value)
       /\ Lower(probe.out.value) = Lower(PyStrOf(probe.param.value))

\* A path a device can be written at: rooted at one of the two data models,
\* with no placeholder left in it.
ConcretePath(path) ==
    /\ path # << >>
    /\ path[1] \in {"InternetGatewayDevice", "Device"}
    /\ \A i \in DOMAIN path : path[i] \notin {"{radio}", "{idx}"}

\* C21: a read of a logical name outside the table gives the default, and no
\* write is built whose path is not a concrete device path.
C21_NoWriteWithoutPath ==
    /\ (probe.fn = "get_value" /\ probe.logical_path \notin DOMAIN PARAM_MAP)
          => probe.out = probe.default
    /\ (probe.fn \in {"build_set_params", "smart_set"} /\ probe.out.emitted)
          => ConcretePath(probe.out.path)

\* The radios of a tree that declare a band, and the order of the indices.
IndexNumber(idx) == CHOOSE n \in DOMAIN SSID_INDEXES : SSID_INDEXES[n] = idx
Radios2g(t) == { r \in DOMAIN t.radio : Is2gBand(t.radio[r]) }
Radios5g(t) == { r \in DOMAIN t.radio : Is5gBand(t.radio[r]) }
LowestIndex(S) == IF S = {} THEN "" ELSE CHOOSE a \in S : \A b \in S : IndexNumber(a) <= IndexNumber(b)

\* C22: when several radios declare the same band, the radio index resolved
\* for the band is the lowest-numbered one, for both bands, in the path
\* detection and in the device summary.
C22_LowestRadioWins ==
    /\ probe.fn = "detect_device_paths" =>
          /\ probe.radio_2g_idx = LowestIndex(Radios2g(probe.tree))
          /\ probe.radio_5g_idx = LowestIndex(Radios5g(probe.tree))
    /\ probe.fn = "extract_device_info" =>
          /\ probe.out.wifi_2g.present =>
                probe.out.wifi_2g.radio_idx = LowestIndex(Radios2g(probe.tree))
          /\ probe.out.wifi_5g.present =>
                probe.out.wifi_5g.radio_idx = LowestIndex(Radios5g(probe.tree))

\* The SSID objects whose back-reference names the path of radio r.
SsidsOnRadio(t, r) ==
    IF r = "" THEN {}
    ELSE { i \in DOMAIN t.ssid :
             Contains(<< "D", "e", "v", "i", "c", "e", ".", "W", "i", "F", "i", ".",
                         "R", "a", "d", "i", "o", "." >> \o << r >>, t.ssid[i]) }

\* C23: the SSID index of a band is the lowest-numbered SSID object whose
\* back-reference names the radio resolved for that band, wherever the radios
\* and the SSIDs sit in the tree; a later SSID on the same radio never
\* replaces it, and the summary reads the same SSID object.
C23_PrimarySsidIsFirstOnRadio ==
    /\ probe.fn = "detect_device_paths" =>
          /\ probe.ssid_2g_idx = LowestIndex(SsidsOnRadio(probe.tree, probe.radio_2g_idx))
          /\ probe.ssid_5g_idx = LowestIndex(SsidsOnRadio(probe.tree, probe.radio_5g_idx))
          /\ probe.ssid_2g_idx # "" =>
                probe.out["wifi_2g_ssid"] = << "Device", "WiFi", "SSID", probe.ssid_2g_idx, "SSID" >>
          /\ probe.ssid_5g_idx # "" =>
                probe.out["wifi_5g_ssid"] = << "Device", "WiFi", "SSID", probe.ssid_5g_idx, "SSID" >>
    /\ probe.fn = "extract_device_info" =>
          /\ probe.out.wifi_2g.ssid_idx = LowestIndex(SsidsOnRadio(probe.tree, Radio2gIdx(probe.tree)))
          /\ probe.out.wifi_5g.ssid_idx = LowestIndex(SsidsOnRadio(probe.tree, Radio5gIdx(probe.tree)))

\* The 5 GHz radio sits below the 2.4 GHz radio, the first SSID belongs to the
\* 5 GHz radio, and the 2.4 GHz radio carries a primary and a secondary SSID.
C23_Witness ==
    /\ probe.fn = "detect_device_paths"
    /\ probe.radio_5g_idx = "1" /\ probe.radio_2g_idx = "2"
    /\ probe.ssid_5g_idx = "1" /\ probe.ssid_2g_idx = "2"
    /\ SsidsOnRadio(probe.tree, "2") = {"2", "3"}

\* The paths of the objects of a band that resolved, none for an absent band.
PathsOfBand(t, band) ==
    LET s == IF band = "2g" THEN Ssid2gIdx(t) ELSE Ssid5gIdx(t)
        r == IF band = "2g" THEN Radio2gIdx(t) ELSE Radio5gIdx(t)
    IN  IF s = "" THEN {} ELSE { BandPaths(band, s, r)[k] : k \in BandKeys(band) }

\* C24: when no SSID resolves for a band, the summary reports no Wi-Fi data
\* for the band, a write carries no instruction for the band, and the write
\* ends without an error.
C24_AbsentBandIsNoOp ==
    /\ probe.fn = "extract_device_info" =>
          /\ Ssid2gIdx(probe.tree) = "" => ~ probe.out.wifi_2g.present
          /\ Ssid5gIdx(probe.tree) = "" => ~ probe.out.wifi_5g.present
    /\ probe.fn = "configure_wifi" =>
          /\ Ssid2gIdx(probe.tree) = "" =>
                /\ probe.out.parameters \subseteq PathsOfBand(probe.tree, "5g")
                /\ (probe.request \cap BandKeys("2g") # {}) => probe.out.status # 400
          /\ Ssid5gIdx(probe.tree) = "" =>
                /\ probe.out.parameters \subseteq PathsOfBand(probe.tree, "2g")
                /\ (probe.request \cap BandKeys("5g") # {}) => probe.out.status # 400

\* A toggle_auto_restore call returns in this step.
ToggleCalled == last'.op = "toggle_auto_restore" /\ last' # last

\* C27: toggle_auto_restore returns true whenever the serial has an active
\* snapshot, whatever the snapshot's flag is, so that enabling after a
\* disabling succeeds.
C27_ToggleFindsActiveSnapshot ==
    [][ (ToggleCalled /\ GetActiveBackupAnyFlag(backups, last'.doc) # {})
           => /\ last'.ok
              /\ last'.ret \in GetActiveBackupAnyFlag(backups', last'.doc) ]_vars

\* The serial's auto-restore is off: a snapshot of it was disabled and none
\* of its active snapshots is enabled.
AutoRestoreOff(bs, s) ==
    /\ \E i \in DOMAIN bs : bs[i].serial_number = s /\ ~ bs[i].is_auto_restore_enabled
    /\ GetActiveBackup(bs, s) = {}

\* C28: while the auto-restore of a serial is off no restore task is posted
\* for it, and only a successful toggle_auto_restore turns it on again: a
\* create_backup call, whatever it stores, leaves it off.
C28_DisabledUntilToggled ==
    [][ \A s \in Serials :
          AutoRestoreOff(backups, s) =>
             /\ posts' = posts
             /\ AutoRestoreOff(backups', s) \/ (ToggleCalled /\ last'.ok) ]_vars

\* The last cycle detected a reset of device d and no restore has succeeded
\* since: the restore it called was refused or failed.
ResetUnrestored(d) ==
    /\ obs.dev = d /\ obs.reset /\ obs.action = "restore"
    /\ events = << >> \/ events[Len(events)].restore_status # "success"

\* C25: from the cycle that detects a reset of a device until a restore for
\* it has succeeded, a create_backup call on the device's factory tree leaves
\* the backups as they are: the active snapshot stays active and no snapshot
\* of the reset tree is inserted.
C25_GoodBackupSurvivesReset ==
    [][ ( /\ ResetUnrestored("d1")
          /\ ActiveByDevice(backups, "d1") # {}
          /\ last'.op = "create_backup" /\ last' # last
          /\ last'.dev = "d1" /\ last'.doc \in FactoryDocNames )
           => backups' = backups ]_vars

\* C26: in the cycle after an uptime regression, when the uptime has gone up
\* and is still below the threshold and the device still reports a default
\* SSID or no PPPoE username, the monitor inserts no event and posts no task.
C26_OneRestorePerReset ==
    [][ ( /\ ProcessStep
          /\ obs.dev = obs'.dev /\ obs.reset /\ obs.reason = "uptime_decreased"
          /\ obs'.prev.ty = "int" /\ obs'.uptime.ty = "int"
          /\ obs'.uptime.n > obs'.prev.n
          /\ obs'.uptime.n < RESET_UPTIME_THRESHOLD )
           => (events' = events /\ posts' = posts) ]_vars

\* The outcomes an event ends with.
TerminalOutcomes == {"success", "failed"}

\* C29: an event committed as pending gets the outcome success or failed
\* when the POST of its task returns or raises, and an event with one of
\* these outcomes keeps it.
C29_PendingReachesTerminal ==
    /\ \A e \in 1..MaxInFlight :
          (Len(events) >= e /\ events[e].restore_status = "pending")
             ~> (Len(events) >= e /\ events[e].restore_status \in TerminalOutcomes)
    /\ [][ \A e \in DOMAIN events :
              events[e].restore_status \in TerminalOutcomes => events'[e] = events[e] ]_vars

\* An event was pending while its POST was awaited, the POST raised a timeout,
\* and the event is failed.
C29_Witness ==
    /\ last.op = "auto_restore" /\ last.ret # 0
    /\ last.resp.kind = "timeout"
    /\ events[last.ret].restore_status = "failed"
    /\ \A p \in Procs : procs[p].pc # "ar_wait"

\* The tree of the same device after a factory reset: the same parameters,
\* each with the value the vendor ships.
FactoryValue(x) ==
    IF x.ty = "bool" THEN Bool(TRUE)
    ELSE IF x.ty = "int" THEN IntStr("1")
    ELSE Str("TP-Link_5G")
FactoryTree(t) ==
    [p \in DOMAIN t |-> IF p = SERIAL_PATH THEN t[p] ELSE FactoryValue(t[p])]

\* The value a device holds after it is written param: the text converted to
\* the instruction's type.
WrittenValue(param) ==
    IF param.type = "xsd:boolean" THEN Bool(param.value.v = "true")
    ELSE IF param.type = "xsd:unsignedInt" THEN IntStr(param.value.v)
    ELSE param.value

\* The tree after the device has carried out the write instructions params:
\* an instruction changes the parameter its path names, and one whose path
\* names no parameter of the device changes nothing.
ApplyParams(t, params) ==
    [p \in DOMAIN t |->
        IF \E i \in DOMAIN params : params[i].path = p
        THEN WrittenValue(params[CHOOSE i \in DOMAIN params : params[i].path = p])
        ELSE t[p]]

\* The content hash create_backup computes for tree t.
TreeHash(t) == ComputeConfigHash(ExtractWifiConfig(t), ExtractWanConfig(t), ExtractLanConfig(t))

\* C30: for every snapshot, writing its stored instructions to the factory
\* tree of the device it was taken from and extracting again gives the
\* content hash of the snapshot.
C30_RestoreRoundTrip ==
    \A i \in DOMAIN backups :
        LET t == DocTable[backups[i].source]
        IN  TreeHash(ApplyParams(FactoryTree(t), backups[i].tr069_params)) = TreeHash(t)

=============================================================================
